---------------------------- MODULE Spec2Model ----------------------------
(***************************************************************************)
(* A model of the MathLive math field (src/src/editor/editor-mathfield.js) *)
(* and of the command bar (src/src/editor/editor-commands.js).             *)
(*                                                                         *)
(* The math field drives four collaborators whose code is not part of the  *)
(* sources at hand: the lexer/parser, the LaTeX serializer, the editable   *)
(* math list and the undo manager.  They are modelled from the             *)
(* specification (sections 4.1, 4.2, 4.4, 4.6, 4.7) and are marked so      *)
(* where they are defined.                                                 *)
(*                                                                         *)
(* LaTeX text is a sequence of one-character strings.  A position in the   *)
(* root's children is the number of atoms before the insertion point       *)
(* (the specification's offset + 1: position 0 is its offset -1).          *)
(***************************************************************************)
EXTENDS Integers, Sequences, FiniteSets, TLC

(***************************************************************************)
(* Bounds of the model.                                                    *)
(***************************************************************************)
\* Largest number of atoms among the root's children.
MaxLen == 3
\* Largest number of snapshots the undo stack holds.
MaxUndo == 3
\* Largest number of deferred (setTimeout) tasks pending at once.
MaxTimers == 2
\* Largest number of pointer-tracking listener pairs registered at once.
MaxListeners == 2
\* Longest LaTeX source text given to the round-trip check.
MaxSrcLen == 4
\* Number of DOM elements of the page a math field can be bound to.
MaxElements == 2
\* Largest number of math fields constructed.
MaxFields == 3
\* Largest index of a suggestion.
MaxIndex == 2
\* Number of operations of a run in which every operation may happen.
MaxSteps == 3
\* Number of operations of a run of a few chosen operations.
MaxDeep == 4
\* The math fields of a page that are looked at together.
MaxInstances == 2

(***************************************************************************)
(* Characters.                                                             *)
(***************************************************************************)
BS == "\\"
Letters == {"p", "i", "x", "l", "a", "c", "e", "h", "o", "d", "r"}
\* Characters a LaTeX source text is made of.
SrcChars == {BS, "x", "i", "^", "{", "}", " "}

IsLetter(c) == c \in Letters

Last(s) == s[Len(s)]
Front(s) == SubSeq(s, 1, Len(s) - 1)
Min(a, b) == IF a <= b THEN a ELSE b
Max(a, b) == IF a >= b THEN a ELSE b

\* Whether suf is a suffix of s.
EndsWith(s, suf) ==
    /\ Len(suf) <= Len(s)
    /\ SubSeq(s, Len(s) - Len(suf) + 1, Len(s)) = suf

(***************************************************************************)
(* Atoms (specification, section 3).  sup is the optional superscript      *)
(* subtree: <<>> when there is none, <<atoms>> when there is one (atoms    *)
(* may be empty).  value is the character, or the command name with its    *)
(* backslash.  body holds the children of a group.  suggestion and error   *)
(* are the command-mode decorations; hasCaret and isSelected are the       *)
(* transient presentation flags.                                           *)
(***************************************************************************)
Atom(t, v) ==
    [type |-> t, value |-> v, body |-> <<>>, sup |-> <<>>, suggestion |-> FALSE,
     error |-> FALSE, hasCaret |-> FALSE, isSelected |-> FALSE]

\* The empty atom a superscript attaches to when nothing precedes it.
EmptyAtom == Atom("mord", <<>>)

\* The atoms of a's superscript.
SupAtoms(a) == IF a.sup = <<>> THEN <<>> ELSE a.sup[1]

(***************************************************************************)
(* Symbol table (specification, section 4.3): the commands the parser      *)
(* knows, by name.                                                         *)
(***************************************************************************)
PlaceholderName == <<"p", "l", "a", "c", "e", "h", "o", "l", "d", "e", "r">>

\* The command names, in the order suggestions are ranked (shorter first).
CommandTable == << <<"p", "i">>, <<"x", "i">>, PlaceholderName >>

KnownCommands == {CommandTable[k] : k \in 1..Len(CommandTable)}

(***************************************************************************)
(* Lexer (specification, section 4.1).                                     *)
(***************************************************************************)
Token(k, n) == [kind |-> k, name |-> n]

\* The index after the run of letters that starts at i.
RECURSIVE LettersEnd(_, _)
LettersEnd(s, i) ==
    IF i <= Len(s) /\ IsLetter(s[i]) THEN LettersEnd(s, i + 1) ELSE i

\* The index after the run of spaces that starts at i.
RECURSIVE SpacesEnd(_, _)
SpacesEnd(s, i) ==
    IF i <= Len(s) /\ s[i] = " " THEN SpacesEnd(s, i + 1) ELSE i

RECURSIVE Lex(_, _)
Lex(s, i) ==
    IF i > Len(s) THEN <<>>
    ELSE IF s[i] = BS THEN
        IF i + 1 > Len(s) THEN <<Token("cs", <<>>)>>
        ELSE IF IsLetter(s[i + 1]) THEN
            LET e == LettersEnd(s, i + 1)
            IN  <<Token("cs", SubSeq(s, i + 1, e - 1))>> \o Lex(s, SpacesEnd(s, e))
        ELSE <<Token("cs", <<s[i + 1]>>)>> \o Lex(s, i + 2)
    ELSE IF s[i] = " " THEN Lex(s, i + 1)
    ELSE IF s[i] = "{" THEN <<Token("open", <<>>)>> \o Lex(s, i + 1)
    ELSE IF s[i] = "}" THEN <<Token("close", <<>>)>> \o Lex(s, i + 1)
    ELSE IF s[i] = "^" THEN <<Token("sup", <<>>)>> \o Lex(s, i + 1)
    ELSE <<Token("char", <<s[i]>>)>> \o Lex(s, i + 1)

tokenize(s) == Lex(s, 1)

(***************************************************************************)
(* Parser (specification, section 4.2).                                    *)
(***************************************************************************)
\* The atom of a character or control-sequence token.
TokenAtom(t) ==
    IF t.kind = "char" THEN Atom("mord", t.name)
    ELSE IF t.name = PlaceholderName THEN Atom("placeholder", <<BS>> \o t.name)
    ELSE IF t.name \in KnownCommands THEN Atom("mord", <<BS>> \o t.name)
    ELSE Atom("error", <<BS>> \o t.name)

\* acc with the superscript arg attached to its last atom: to an empty atom
\* when nothing precedes, and dropped when that atom has a superscript.
AttachSup(acc, arg) ==
    IF acc = <<>> THEN <<[EmptyAtom EXCEPT !.sup = <<arg>>]>>
    ELSE IF Last(acc).sup # <<>> THEN acc
    ELSE Front(acc) \o <<[Last(acc) EXCEPT !.sup = <<arg>>]>>

RECURSIVE ParseSeq(_, _, _, _)
RECURSIVE ParseArg(_, _)

\* One argument: a balanced group or a single atom.
ParseArg(toks, i) ==
    IF i > Len(toks) THEN [atoms |-> <<>>, next |-> i]
    ELSE IF toks[i].kind = "open" THEN ParseSeq(toks, i + 1, <<>>, TRUE)
    ELSE IF toks[i].kind \in {"close", "sup"} THEN [atoms |-> <<>>, next |-> i]
    ELSE [atoms |-> <<TokenAtom(toks[i])>>, next |-> i + 1]

\* The atoms from token i on, up to the end of the group when inGroup (an
\* unterminated group is closed at the end of the input).
ParseSeq(toks, i, acc, inGroup) ==
    IF i > Len(toks) THEN [atoms |-> acc, next |-> i]
    ELSE IF toks[i].kind = "close" THEN
        IF inGroup THEN [atoms |-> acc, next |-> i + 1]
        ELSE ParseSeq(toks, i + 1, acc, inGroup)
    ELSE IF toks[i].kind = "open" THEN
        LET g == ParseSeq(toks, i + 1, <<>>, TRUE)
        IN  ParseSeq(toks, g.next,
                     acc \o <<[Atom("group", <<>>) EXCEPT !.body = g.atoms]>>,
                     inGroup)
    ELSE IF toks[i].kind = "sup" THEN
        LET a == ParseArg(toks, i + 1)
        IN  ParseSeq(toks, a.next, AttachSup(acc, a.atoms), inGroup)
    ELSE ParseSeq(toks, i + 1, acc \o <<TokenAtom(toks[i])>>, inGroup)

parseTokens(toks) == ParseSeq(toks, 1, <<>>, FALSE).atoms

RECURSIVE HasUnknownCommand(_)
HasUnknownCommand(atoms) ==
    \E k \in 1..Len(atoms) :
        \/ atoms[k].type = "error"
        \/ HasUnknownCommand(atoms[k].body)
        \/ HasUnknownCommand(SupAtoms(atoms[k]))

(***************************************************************************)
(* Serializer (specification, sections 4.2 and 6): toLatex.                *)
(***************************************************************************)
IsControlWord(v) == Len(v) >= 2 /\ v[1] = BS /\ IsLetter(v[2])

RECURSIVE toLatex(_)
RECURSIVE ListToLatex(_)

\* The LaTeX of one atom: a control word is followed by the space that ends it.
toLatex(a) ==
    (IF a.type = "group" THEN <<"{">> \o ListToLatex(a.body) \o <<"}">>
     ELSE IF a.type # "command" /\ IsControlWord(a.value)
        THEN a.value \o <<" ">>
     ELSE a.value)
    \o (IF a.sup = <<>> THEN <<>>
        ELSE <<"^", "{">> \o ListToLatex(SupAtoms(a)) \o <<"}">>)

\* The LaTeX of a list of atoms: the concatenation of its atoms' LaTeX.
ListToLatex(atoms) ==
    IF atoms = <<>> THEN <<>>
    ELSE toLatex(atoms[1]) \o ListToLatex(Tail(atoms))

\* The text parsed in math mode.
ParseLatex(s) == parseTokens(tokenize(s))

\* The atoms with the transient presentation flags cleared.
RECURSIVE Strip(_)
Strip(atoms) ==
    [k \in 1..Len(atoms) |->
        [atoms[k] EXCEPT !.hasCaret = FALSE, !.isSelected = FALSE,
                         !.body = Strip(atoms[k].body),
                         !.sup = IF atoms[k].sup = <<>> THEN <<>>
                                 ELSE <<Strip(SupAtoms(atoms[k]))>>]]

(***************************************************************************)
(* Symbol table lookups (specification, sections 4.3 and 4.7).             *)
(***************************************************************************)
\* The commands offered as completions, in ranking order.
SuggestTable == << <<BS, "p", "i">>, <<BS, "x", "i">> >>

StartsWith(s, pre) == Len(pre) <= Len(s) /\ SubSeq(s, 1, Len(pre)) = pre

RECURSIVE SuggestFrom(_, _)
SuggestFrom(prefix, k) ==
    IF k > Len(SuggestTable) THEN <<>>
    ELSE (IF StartsWith(SuggestTable[k], prefix)
            THEN <<[match |-> SuggestTable[k]]>> ELSE <<>>)
         \o SuggestFrom(prefix, k + 1)

\* Definitions.suggest: the candidates that start with the prefix.
suggest(prefix) == SuggestFrom(prefix, 1)

\* Definitions.matchFunction / matchSymbol: the command of that exact name.
matchSymbol(command) ==
    IF Len(command) >= 1 /\ command[1] = BS /\ Tail(command) \in KnownCommands
        THEN <<[latexName |-> command]>> ELSE <<>>

\* The built-in inline shortcuts: key and substitute.
INLINE_SHORTCUTS == { [key |-> <<"p", "i">>, substitute |-> <<BS, "p", "i">>] }

\* The shortcuts matchEndOf consults: those of the configuration first, the
\* built-in ones unless they are overridden.
ShortcutsOf(config) ==
    config.inlineShortcuts \cup
    (IF config.overrideDefaultInlineShortcuts THEN {}
     ELSE {b \in INLINE_SHORTCUTS :
            \A u \in config.inlineShortcuts : u.key # b.key})

\* Shortcuts.matchEndOf: the longest shortcut key that ends the text, as
\* <<[match, substitute]>>, or <<>>.
matchEndOf(text, config) ==
    LET hits == {sc \in ShortcutsOf(config) : EndsWith(text, sc.key)}
    IN  IF hits = {} THEN <<>>
        ELSE LET best == CHOOSE sc \in hits :
                            \A o \in hits : Len(o.key) <= Len(sc.key)
             IN  <<[match |-> best.key, substitute |-> best.substitute]>>

(***************************************************************************)
(* The state of one math field as the operations below thread it: the     *)
(* fields of the MathField object, of its math list and undo manager, and *)
(* the pending timers and keyboard focus of the page.                     *)
(*   children, rootCaret : mathlist.root.children and root.hasCaret       *)
(*   anchor, focus       : the selection range, as positions              *)
(*   stack, index        : the undo manager's snapshots and cursor        *)
(*   field               : what the last render displayed                 *)
(***************************************************************************)
Collapsed(m) == m.anchor = m.focus
Lo(m) == Min(m.anchor, m.focus)
Hi(m) == Max(m.anchor, m.focus)

\* Whether position p resolves in the tree.
Resolves(m, p) == p \in 0..Len(m.children)

\* EditableMathlist.contains: whether the atom at index k is selected.
contains(m, k) == Lo(m) < k /\ k <= Hi(m)

\* EditableMathlist.extractContents: the selected atoms.
extractContents(m) == SubSeq(m.children, Lo(m) + 1, Hi(m))

\* The type of the atom the insertion point is anchored on.
AnchorType(m) == IF m.anchor = 0 THEN "root" ELSE m.children[m.anchor].type

\* EditableMathlist.parseMode
parseMode(m) == IF AnchorType(m) = "command" THEN "command" ELSE "math"

(***************************************************************************)
(* Command-mode string tracking (specification, section 4.4).              *)
(***************************************************************************)
IsCommandAt(m, k) == k \in 1..Len(m.children) /\ m.children[k].type = "command"

\* The first index of the run of command atoms that ends at index k.
RECURSIVE RunStart(_, _)
RunStart(m, k) == IF IsCommandAt(m, k) THEN RunStart(m, k - 1) ELSE k + 1

\* The last index of the run of command atoms that starts at index k.
RECURSIVE RunEnd(_, _)
RunEnd(m, k) == IF IsCommandAt(m, k) THEN RunEnd(m, k + 1) ELSE k - 1

\* The run of command atoms around the insertion point, empty when
\* CommandStart > CommandEnd.
CommandStart(m) == RunStart(m, m.anchor)
CommandEnd(m) == RunEnd(m, m.anchor + 1)
InCommand(m, k) == CommandStart(m) <= k /\ k <= CommandEnd(m)

RECURSIVE ConcatValues(_)
ConcatValues(atoms) ==
    IF atoms = <<>> THEN <<>> ELSE atoms[1].value \o ConcatValues(Tail(atoms))

extractCommandStringAroundInsertionPoint(m) ==
    ConcatValues(SubSeq(m.children, CommandStart(m), CommandEnd(m)))

decorateCommandStringAroundInsertionPoint(m, flag) ==
    [m EXCEPT !.children =
        [k \in 1..Len(@) |->
            IF InCommand(m, k) THEN [@[k] EXCEPT !.error = flag] ELSE @[k]]]

\* The atoms of the command string before the insertion point are no longer
\* a suggestion.
commitCommandStringBeforeInsertionPoint(m) ==
    [m EXCEPT !.children =
        [k \in 1..Len(@) |->
            IF InCommand(m, k) /\ k <= m.anchor
                THEN [@[k] EXCEPT !.suggestion = FALSE] ELSE @[k]]]

\* The number of suggestion atoms among the first p children.
SuggestionsBefore(m, p) ==
    Cardinality({k \in 1..p : m.children[k].suggestion})

removeSuggestion(m) ==
    [m EXCEPT !.children = SelectSeq(@, LAMBDA a : ~a.suggestion),
              !.anchor = @ - SuggestionsBefore(m, @),
              !.focus = @ - SuggestionsBefore(m, @)]

\* The characters of s from index l on, counted from the end when l < 0
\* (String.prototype.substr).
Substr(s, l) ==
    IF l < 0 THEN SubSeq(s, Max(Len(s) + l, 0) + 1, Len(s))
    ELSE SubSeq(s, l + 1, Len(s))

\* The part of the suggested command that was not typed, put after the
\* insertion point as suggestion atoms; the insertion point stays.
insertSuggestion(m, s, l) ==
    LET sub == Substr(s, l)
        atoms == [k \in 1..Len(sub) |->
                    [Atom("command", <<sub[k]>>) EXCEPT !.suggestion = TRUE]]
    IN  [m EXCEPT !.children = SubSeq(@, 1, m.anchor) \o atoms
                               \o SubSeq(@, m.anchor + 1, Len(@)),
                  !.focus = IF @ > m.anchor THEN @ + Len(sub) ELSE @]

\* The insertion point after the last typed (not suggested) command atom.
RECURSIVE CommittedEnd(_, _)
CommittedEnd(m, k) ==
    IF IsCommandAt(m, k) /\ ~m.children[k].suggestion
        THEN CommittedEnd(m, k + 1) ELSE k - 1

(***************************************************************************)
(* MathField.prototype._onSelectionDidChange: the handler the math list    *)
(* calls after each change of the selection.                               *)
(***************************************************************************)
\* The handler, were it to invoke the client's handler first.
onSelectionDidChangeClientFirst(m) ==
    LET m1 == commitCommandStringBeforeInsertionPoint(
                [m EXCEPT !.notified = TRUE, !.seen = m.textarea])
        m2 == [m1 EXCEPT !.textarea =
                 IF Collapsed(m1) THEN <<>>
                 ELSE ListToLatex(extractContents(m1))]
    IN  [m2 EXCEPT !.timers = IF m2.popover THEN Append(@, "popover") ELSE @]

\* seen is what the client's handler, invoked at lines 458-460, finds in the
\* textarea.
onSelectionDidChange(m) ==
    LET m1 == commitCommandStringBeforeInsertionPoint(m)
        m2 == [m1 EXCEPT !.textarea =
                 IF Collapsed(m1) THEN <<>>
                 ELSE ListToLatex(extractContents(m1))]
    IN  \* _updatePopoverPosition({deferred: true})
        [m2 EXCEPT !.timers = IF m2.popover THEN Append(@, "popover") ELSE @,
                   !.notified = TRUE,
                   !.seen = m2.textarea]

\* The math list's notification: m0 is the state before the operation.
Notify(m0, m) ==
    IF <<m.anchor, m.focus>> # <<m0.anchor, m0.focus>>
        THEN onSelectionDidChange(m) ELSE m

(***************************************************************************)
(* The editable math list (specification, section 4.4).                    *)
(***************************************************************************)
RemoveRange(s, from, to) == SubSeq(s, 1, from - 1) \o SubSeq(s, to + 1, Len(s))

\* The selected atoms removed, the insertion point where they were.
DeleteSelection(m) ==
    [m EXCEPT !.children = RemoveRange(@, Lo(m) + 1, Hi(m)),
              !.anchor = Lo(m), !.focus = Lo(m)]

DeleteStep(m, dir) ==
    IF ~Collapsed(m) THEN DeleteSelection(m)
    ELSE IF dir < 0 /\ m.anchor >= 1 THEN
        [m EXCEPT !.children = RemoveRange(@, m.anchor, m.anchor),
                  !.anchor = @ - 1, !.focus = m.anchor - 1]
    ELSE IF dir > 0 /\ m.anchor < Len(m.children) THEN
        [m EXCEPT !.children = RemoveRange(@, m.anchor + 1, m.anchor + 1)]
    ELSE m

\* EditableMathlist.delete_(dir)
delete_(m, dir) == Notify(m, DeleteStep(m, dir))

\* EditableMathlist.delete(count): |count| atoms, backward when count < 0.
RECURSIVE delete(_, _)
delete(m, count) ==
    IF count = 0 THEN delete_(m, 0)
    ELSE IF count > 0 THEN
        (IF count = 1 THEN delete_(m, 1) ELSE delete(delete_(m, 1), count - 1))
    ELSE (IF count = -1 THEN delete_(m, -1) ELSE delete(delete_(m, -1), count + 1))

deleteToMathFieldEnd_(m) ==
    Notify(m, [m EXCEPT !.children = SubSeq(@, 1, Lo(m)),
                        !.anchor = Lo(m), !.focus = Lo(m)])

\* EditableMathlist.setRange: a path that does not resolve makes it a no-op.
setRange(m, a, f) ==
    IF Resolves(m, a) /\ Resolves(m, f)
        THEN Notify(m, [m EXCEPT !.anchor = a, !.focus = f]) ELSE m

\* EditableMathlist.setPath(path, 0): a collapsed selection.
setPath(m, a) == setRange(m, a, a)

selectAll_(m) == Notify(m, [m EXCEPT !.anchor = 0, !.focus = Len(m.children)])

\* The smallest enclosing sibling run: at the root, its children.
selectGroup_(m) == selectAll_(m)

\* Navigation wraps around at the ends.
moveToNextChar_(m) ==
    LET p == IF ~Collapsed(m) THEN Hi(m)
             ELSE IF m.anchor = Len(m.children) THEN 0 ELSE m.anchor + 1
    IN  Notify(m, [m EXCEPT !.anchor = p, !.focus = p])

moveToPreviousChar_(m) ==
    LET p == IF ~Collapsed(m) THEN Lo(m)
             ELSE IF m.anchor = 0 THEN Len(m.children) ELSE m.anchor - 1
    IN  Notify(m, [m EXCEPT !.anchor = p, !.focus = p])

positionInsertionPointAfterCommitedCommand(m) ==
    LET p == CommittedEnd(m, CommandStart(m))
    IN  IF CommandStart(m) > CommandEnd(m) THEN m
        ELSE Notify(m, [m EXCEPT !.anchor = p, !.focus = p])

\* The command string replaced by atoms, the insertion point after them.
spliceCommandStringAroundInsertionPoint(m, atoms) ==
    LET s == CommandStart(m)
        p == s - 1 + Len(atoms)
    IN  Notify(m, [m EXCEPT !.children = SubSeq(@, 1, s - 1) \o atoms
                                         \o SubSeq(@, CommandEnd(m) + 1, Len(@)),
                            !.anchor = p, !.focus = p])

\* The concatenated characters of the atoms before the insertion point; an
\* atom that is not a single character counts as a replacement character.
extractGroupStringBeforeInsertionPoint(m) ==
    [k \in 1..m.anchor |->
        IF m.children[k].type = "mord" /\ Len(m.children[k].value) = 1
            THEN m.children[k].value[1] ELSE "?"]

\* The character that enters command mode when inserted.
CommandTrigger == <<"'">>

DefaultOptions ==
    [insertionMode |-> "replaceSelection", selectionMode |-> "placeholder",
     format |-> "auto"]

\* The index of the first placeholder of atoms, 0 when there is none.
FirstPlaceholder(atoms) ==
    IF \E k \in 1..Len(atoms) : atoms[k].type = "placeholder"
        THEN CHOOSE k \in 1..Len(atoms) :
                /\ atoms[k].type = "placeholder"
                /\ \A j \in 1..(k - 1) : atoms[j].type # "placeholder"
        ELSE 0

\* The atoms insert makes of its text.
InsertedAtoms(m, s, o) ==
    IF o.format # "latex" /\ parseMode(m) = "command"
        THEN [k \in 1..Len(s) |-> Atom("command", <<s[k]>>)]
    ELSE IF s = CommandTrigger THEN <<Atom("command", <<BS>>)>>
    ELSE ParseLatex(s)

\* EditableMathlist.insert(s, options)
insert(m, s, o) ==
    LET m1 == IF o.insertionMode = "replaceAll"
                THEN [m EXCEPT !.children = <<>>, !.anchor = 0, !.focus = 0]
              ELSE IF o.insertionMode = "insertBefore"
                THEN [m EXCEPT !.anchor = Lo(m), !.focus = Lo(m)]
              ELSE IF o.insertionMode = "insertAfter"
                THEN [m EXCEPT !.anchor = Hi(m), !.focus = Hi(m)]
              ELSE IF Collapsed(m) THEN m ELSE DeleteSelection(m)
        atoms == InsertedAtoms(m1, s, o)
        p == m1.anchor
        n == Len(atoms)
        ph == FirstPlaceholder(atoms)
        a == IF o.selectionMode = "placeholder" /\ ph # 0 THEN p + ph - 1
             ELSE IF o.selectionMode \in {"before", "item"} THEN p
             ELSE p + n
        f == IF o.selectionMode = "placeholder" /\ ph # 0 THEN p + ph
             ELSE IF o.selectionMode = "before" THEN p
             ELSE p + n
    IN  Notify(m, [m1 EXCEPT !.children = SubSeq(@, 1, p) \o atoms
                                          \o SubSeq(@, p + 1, Len(@)),
                             !.anchor = a, !.focus = f])

(***************************************************************************)
(* The undo manager (specification, section 4.6).  index is the cursor:    *)
(* the number of snapshots at or below it.                                 *)
(***************************************************************************)
\* UndoManager.snapshot: the redo history beyond the cursor is dropped.
snapshot(m) ==
    [m EXCEPT !.stack = Append(SubSeq(@, 1, m.index), Strip(m.children)),
              !.index = @ + 1,
              !.snaps = @ + 1]

\* The live tree replaced by a snapshot, the insertion point at its end.
restore(m, tree) ==
    Notify(m, [m EXCEPT !.children = tree, !.anchor = Len(tree),
                        !.focus = Len(tree)])

UndoManagerUndo(m) ==
    IF m.index >= 1
        THEN [restore(m, m.stack[m.index]) EXCEPT !.index = m.index - 1]
        ELSE m

UndoManagerRedo(m) ==
    IF m.index < Len(m.stack)
        THEN [restore(m, m.stack[m.index + 1]) EXCEPT !.index = m.index + 1]
        ELSE m

(***************************************************************************)
(* The math field: src/src/editor/editor-mathfield.js.                     *)
(***************************************************************************)
\* MathField.prototype.hasFocus
hasFocus(m) == m.docFocus /\ m.active

_hidePopover(m) == [m EXCEPT !.popover = FALSE]

\* MathField.prototype._showPopoverWithLatex
_showPopoverWithLatex(m, latex, displayArrows) ==
    IF latex = <<>> THEN _hidePopover(m)
    ELSE [m EXCEPT !.popover = TRUE, !.arrows = displayArrows]

\* MathField.prototype._updatePopoverPosition, not deferred.
_updatePopoverPosition(m) ==
    IF m.popover /\ (m.blurred \/ AnchorType(m) # "command")
        THEN _hidePopover(m) ELSE m

\* _render, were it to show the caret whether or not the field has the focus.
_renderCaretUnfocused(m) ==
    LET caret == Collapsed(m)
        cleared == Strip(m.children)
        drawn == [k \in 1..Len(cleared) |->
                    [cleared[k] EXCEPT !.isSelected = contains(m, k),
                                       !.hasCaret = caret /\ k = m.anchor]]
    IN  [m EXCEPT !.children = drawn,
                  !.rootCaret = caret /\ m.anchor = 0,
                  !.field = [children |-> drawn,
                             rootCaret |-> caret /\ m.anchor = 0,
                             anchor |-> m.anchor, focus |-> m.focus],
                  !.renders = @ + 1]

\* MathField.prototype._render: the selection flags are set on every atom,
\* the caret on the anchor when the field has the focus, and the markup of
\* the field is replaced.
_render(m) ==
    LET caret == hasFocus(m) /\ Collapsed(m)
        cleared == Strip(m.children)
        drawn == [k \in 1..Len(cleared) |->
                    [cleared[k] EXCEPT !.isSelected = contains(m, k),
                                       !.hasCaret = caret /\ k = m.anchor]]
    IN  [m EXCEPT !.children = drawn,
                  !.rootCaret = caret /\ m.anchor = 0,
                  !.field = [children |-> drawn,
                             rootCaret |-> caret /\ m.anchor = 0,
                             anchor |-> m.anchor, focus |-> m.focus],
                  !.renders = @ + 1]

\* _onFocus, were it not to look at the blurred flag.
_onFocusUnguarded(m) ==
    [_render(_updatePopoverPosition([m EXCEPT !.blurred = FALSE]))
        EXCEPT !.handlers = Append(@, "onFocus")]

\* MathField.prototype._onFocus; handlers lists the client's focus and blur
\* handlers that the operation in progress has invoked.
_onFocus(m) ==
    IF m.blurred
        THEN [_render(_updatePopoverPosition([m EXCEPT !.blurred = FALSE]))
                EXCEPT !.handlers = Append(@, "onFocus")]
        ELSE m

\* MathField.prototype._onBlur
_onBlur(m) ==
    IF ~m.blurred
        THEN [_render(_updatePopoverPosition([m EXCEPT !.blurred = TRUE]))
                EXCEPT !.handlers = Append(@, "onBlur")]
        ELSE m

\* A JavaScript argument: a string, or undefined.
Str(s) == [type |-> "string", text |-> s]
Undefined == [type |-> "undefined", text |-> <<>>]

\* JavaScript's truth of such an argument.
Truthy(v) == v.type = "string" /\ v.text # <<>>

\* insert, were it to pass the empty string on to the math list.
MathFieldInsertAnyString(m, latex, options) ==
    IF latex.type = "string"
        THEN insert(m, latex.text, options)
        ELSE m

\* MathField.prototype.insert (write, insert_)
MathFieldInsert(m, latex, options) ==
    IF latex.type = "string" /\ Len(latex.text) > 0
        THEN insert(m, latex.text, options)
        ELSE m

\* MathField.prototype.enterCommandMode_
enterCommandMode_(m) ==
    LET m1 == decorateCommandStringAroundInsertionPoint(m, FALSE)
        m2 == _hidePopover(removeSuggestion(m1))
        m3 == snapshot([m2 EXCEPT !.suggestionIndex = 0])
    IN  insert(m3, CommandTrigger, DefaultOptions)

\* complete_, were it to leave alone a command that matches no symbol.
completeKnownOnly(m) ==
    LET m1 == _hidePopover(m)
        command == extractCommandStringAroundInsertionPoint(m1)
        match == matchSymbol(command)
    IN  IF command = <<>> THEN m1
        ELSE IF match # <<>> THEN
            spliceCommandStringAroundInsertionPoint(
                m1, ParseLatex(match[1].latexName))
        ELSE m1

\* MathField.prototype.complete_
complete_(m) ==
    LET m1 == _hidePopover(m)
        command == extractCommandStringAroundInsertionPoint(m1)
        match == matchSymbol(command)
    IN  IF command = <<>> THEN m1
        ELSE IF match # <<>> THEN
            spliceCommandStringAroundInsertionPoint(
                m1, ParseLatex(match[1].latexName))
        ELSE \* the parse is a list, which JavaScript takes for true
            spliceCommandStringAroundInsertionPoint(m1, ParseLatex(command))

\* MathField.prototype._updateSuggestion
_updateSuggestion(m) ==
    LET m1 == removeSuggestion(positionInsertionPointAfterCommitedCommand(m))
        command == extractCommandStringAroundInsertionPoint(m1)
        suggestions == suggest(command)
    IN  IF Len(suggestions) = 0 THEN
            _render(decorateCommandStringAroundInsertionPoint(
                        _hidePopover(m1), TRUE))
        ELSE
            LET index == (m1.suggestionIndex % Len(suggestions)) + 1
                l == Len(command) - Len(suggestions[index].match)
                m2 == IF l # 0
                        THEN insertSuggestion(m1, suggestions[index].match, l)
                        ELSE m1
            IN  _render(_showPopoverWithLatex(m2, suggestions[index].match,
                                              Len(suggestions) > 1))

\* nextSuggestion_, were it to leave the index where it is.
nextSuggestionStays(m) == _updateSuggestion(m)

\* MathField.prototype.nextSuggestion_
nextSuggestion_(m) == _updateSuggestion([m EXCEPT !.suggestionIndex = @ + 1])

\* MathField.prototype.previousSuggestion_
previousSuggestion_(m) ==
    IF m.suggestionIndex - 1 < 0 THEN
        LET m1 == removeSuggestion(m)
            command == extractCommandStringAroundInsertionPoint(m1)
        IN  _updateSuggestion(
                [m1 EXCEPT !.suggestionIndex = Len(suggest(command)) - 1])
    ELSE _updateSuggestion([m EXCEPT !.suggestionIndex = @ - 1])

\* undo, were it to put back the oldest snapshot.
undoToOldest(m) ==
    IF m.index >= 1 THEN [restore(m, m.stack[1]) EXCEPT !.index = m.index - 1]
    ELSE m

\* redo, were it to put back the newest snapshot whatever the cursor.
redoToNewest(m) ==
    IF m.stack # <<>>
        THEN [restore(m, m.stack[Len(m.stack)]) EXCEPT !.index = Len(m.stack)]
        ELSE m

\* MathField.prototype.undo (undo_) and redo (redo_)
undo(m) == UndoManagerUndo(m)
redo(m) == UndoManagerRedo(m)

\* A command: its name and, for insert, its arguments.
Command(name) == [name |-> name, latex |-> Undefined, options |-> DefaultOptions]

\* The selectors perform takes a snapshot for (its two lists).
MathlistSnapshotSelectors ==
    {"delete_", "transpose_", "deleteToMathFieldEnd_", "deleteToGroupEnd_",
     "deleteToGroupStart_", "deletePreviousWord_", "deleteNextWord_",
     "deletePreviousChar_", "deleteNextChar_"}
MathFieldSnapshotSelectors == {"complete_"}

\* The operations of the math list that are modelled.
MathlistSelectors ==
    {"delete_", "deletePreviousChar_", "deleteNextChar_",
     "deleteToMathFieldEnd_", "moveToNextChar_", "moveToPreviousChar_",
     "selectAll_", "selectGroup_"}

MathlistCall(m, selector) ==
    CASE selector = "delete_" -> delete_(m, 0)
      [] selector = "deletePreviousChar_" -> delete_(m, -1)
      [] selector = "deleteNextChar_" -> delete_(m, 1)
      [] selector = "deleteToMathFieldEnd_" -> deleteToMathFieldEnd_(m)
      [] selector = "moveToNextChar_" -> moveToNextChar_(m)
      [] selector = "moveToPreviousChar_" -> moveToPreviousChar_(m)
      [] selector = "selectAll_" -> selectAll_(m)
      [] selector = "selectGroup_" -> selectGroup_(m)

\* The operations of the math field: those defined with a trailing underscore
\* on MathField.prototype.  Scrolling is not implemented, and the clipboard
\* commands and the panels leave the tree, the selection and the undo stack
\* alone.
MathFieldSelectors ==
    {"undo_", "redo_", "scrollIntoView_", "scrollToStart_", "scrollToEnd_",
     "enterCommandMode_", "copyToClipboard_", "cutToClipboard_",
     "pasteFromClipboard_", "insert_", "complete_", "nextSuggestion_",
     "previousSuggestion_", "toggleKeystrokeCaption_", "toggleCommandBar_"}

MathFieldCall(m, selector, command) ==
    CASE selector = "undo_" -> undo(m)
      [] selector = "redo_" -> redo(m)
      [] selector \in {"scrollIntoView_", "scrollToStart_", "scrollToEnd_",
                       "copyToClipboard_", "cutToClipboard_",
                       "pasteFromClipboard_", "toggleKeystrokeCaption_",
                       "toggleCommandBar_"} -> m
      [] selector = "enterCommandMode_" -> enterCommandMode_(m)
      [] selector = "insert_" -> MathFieldInsert(m, command.latex, command.options)
      [] selector = "complete_" -> complete_(m)
      [] selector = "nextSuggestion_" -> nextSuggestion_(m)
      [] selector = "previousSuggestion_" -> previousSuggestion_(m)

\* perform, were it to render whatever the command.
performRendersAlways(m, command) ==
    LET selector == command.name \o "_"
    IN  IF selector \in MathlistSelectors THEN
            LET m1 == IF selector \in MathlistSnapshotSelectors
                        THEN snapshot(m) ELSE m
            IN  [m |-> _render(MathlistCall(m1, selector)), ret |-> TRUE]
        ELSE IF selector \in MathFieldSelectors THEN
            LET m1 == IF selector \in MathFieldSnapshotSelectors
                        THEN snapshot(m) ELSE m
            IN  [m |-> _render(MathFieldCall(m1, selector, command)),
                 ret |-> TRUE]
        ELSE [m |-> _render(m), ret |-> FALSE]

\* MathField.prototype.perform: the state after it and what it returns.
perform(m, command) ==
    LET selector == command.name \o "_"
    IN  IF selector \in MathlistSelectors THEN
            LET m1 == IF selector \in MathlistSnapshotSelectors
                        THEN snapshot(m) ELSE m
            IN  [m |-> _render(MathlistCall(m1, selector)), ret |-> TRUE]
        ELSE IF selector \in MathFieldSelectors THEN
            LET m1 == IF selector \in MathFieldSnapshotSelectors
                        THEN snapshot(m) ELSE m
            IN  [m |-> _render(MathFieldCall(m1, selector, command)),
                 ret |-> TRUE]
        ELSE [m |-> m, ret |-> FALSE]

(***************************************************************************)
(* Shortcuts.matchKeystroke (specification, section 4.7): a static table   *)
(* per mode.  A shortcut is a command name or a LaTeX text; text is the    *)
(* same string as a sequence of characters.                                *)
(***************************************************************************)
Shortcut(name, text) == [name |-> name, text |-> text]

KEYBOARD_SHORTCUTS ==
    {[mode |-> "math", key |-> "Backspace", shortcut |-> Shortcut("deletePreviousChar", <<>>)],
     [mode |-> "math", key |-> "ArrowLeft", shortcut |-> Shortcut("moveToPreviousChar", <<>>)],
     [mode |-> "math", key |-> "ArrowRight", shortcut |-> Shortcut("moveToNextChar", <<>>)],
     [mode |-> "math", key |-> "Backslash", shortcut |-> Shortcut("enterCommandMode", <<>>)],
     [mode |-> "math", key |-> "Meta-KeyZ", shortcut |-> Shortcut("undo", <<>>)],
     [mode |-> "math", key |-> "Meta-Shift-KeyZ", shortcut |-> Shortcut("redo", <<>>)],
     [mode |-> "math", key |-> "Meta-KeyA", shortcut |-> Shortcut("selectAll", <<>>)],
     [mode |-> "math", key |-> "Alt-KeyP", shortcut |-> Shortcut("\\pi", <<BS, "p", "i">>)],
     [mode |-> "command", key |-> "Backspace", shortcut |-> Shortcut("deletePreviousChar", <<>>)],
     [mode |-> "command", key |-> "Return", shortcut |-> Shortcut("complete", <<>>)],
     [mode |-> "command", key |-> "ArrowDown", shortcut |-> Shortcut("nextSuggestion", <<>>)],
     [mode |-> "command", key |-> "ArrowUp", shortcut |-> Shortcut("previousSuggestion", <<>>)]}

\* The shortcut of a keystroke in a mode: <<>> or <<shortcut>>.
matchKeystroke(mode, keystroke) ==
    IF \E e \in KEYBOARD_SHORTCUTS : e.mode = mode /\ e.key = keystroke
        THEN <<(CHOOSE e \in KEYBOARD_SHORTCUTS :
                    e.mode = mode /\ e.key = keystroke).shortcut>>
        ELSE <<>>

\* The shortcut that perform did not carry out is inserted as text and the
\* field rendered (lines 573-579); p is what perform gave.
InsertUnlessPerformed(p, text) ==
    IF ~p.ret THEN _render(insert(p.m, text, DefaultOptions)) ELSE p.m

\* MathField.prototype._onKeystroke; hasEvt tells whether the event object
\* was passed.  Without it, evt.preventDefault() raises a TypeError after
\* the shortcut has been carried out.
_onKeystroke(m, keystroke, hasEvt) ==
    LET shortcut == matchKeystroke(parseMode(m), keystroke)
    IN  IF shortcut = <<>> THEN [m |-> m, ret |-> "true", raised |-> FALSE]
        ELSE [m |-> InsertUnlessPerformed(
                        perform(decorateCommandStringAroundInsertionPoint(m, FALSE),
                                Command(shortcut[1].name)),
                        shortcut[1].text),
              ret |-> IF hasEvt THEN "false" ELSE "none",
              raised |-> ~hasEvt]

\* What the caller of keystroke sees of what _onKeystroke did.
Propagated(r) ==
    [m |-> r.m, ret |-> IF r.raised THEN "none" ELSE "undefined",
     raised |-> r.raised]

\* MathField.prototype.keystroke: the public operation passes no event.
keystroke(m, keys) == Propagated(_onKeystroke(m, keys, FALSE))

\* The regular expression /^\\[a-zA-Z\\*]+$/ of _onTypedText.
LooksLikeCommand(s) ==
    /\ Len(s) >= 2
    /\ s[1] = BS
    /\ \A k \in 2..Len(s) : IsLetter(s[k]) \/ s[k] \in {BS, "*"}

\* The loop body, were the snapshot of a shortcut taken before the typed
\* character is inserted.
TypedCharSnapshotsFirst(a, c) ==
    LET m == a.m
        shortcut == IF parseMode(m) = "math"
                      THEN matchEndOf(
                            extractGroupStringBeforeInsertionPoint(m) \o <<c>>,
                            m.config)
                      ELSE <<>>
    IN  IF parseMode(m) = "command" THEN
            LET m1 == [removeSuggestion(m) EXCEPT !.suggestionIndex = 0]
                command == extractCommandStringAroundInsertionPoint(m1)
                suggestions == suggest(command \o <<c>>)
                m2 == insert(m1, <<c>>, DefaultOptions)
            IN  IF Len(suggestions) = 0 THEN
                    [m |-> _hidePopover(
                            IF LooksLikeCommand(command \o <<c>>)
                              THEN decorateCommandStringAroundInsertionPoint(m2, TRUE)
                              ELSE m2),
                     popoverText |-> a.popoverText,
                     displayArrows |-> FALSE]
                ELSE
                    [m |-> IF suggestions[1].match # command \o <<c>>
                             THEN insertSuggestion(m2, suggestions[1].match,
                                    -Len(suggestions[1].match) + Len(command) + 1)
                             ELSE m2,
                     popoverText |-> suggestions[1].match,
                     displayArrows |-> Len(suggestions) > 1]
        ELSE IF shortcut # <<>> THEN
            LET m1 == snapshot(m)
                m2 == insert(m1, <<c>>, DefaultOptions)
                m3 == delete(m2, -Len(shortcut[1].match) - 1)
                m4 == insert(m3, shortcut[1].substitute, DefaultOptions)
            IN  [a EXCEPT !.m = [m4 EXCEPT !.matched = TRUE]]
        ELSE
            [a EXCEPT !.m = insert(snapshot(m), <<c>>, DefaultOptions)]

\* The loop body, were it to match shortcuts without the configuration.
TypedCharDefaultShortcuts(a, c) ==
    LET m == a.m
        shortcut == IF parseMode(m) = "math"
                      THEN matchEndOf(
                            extractGroupStringBeforeInsertionPoint(m) \o <<c>>,
                            [m.config EXCEPT
                                !.inlineShortcuts = {},
                                !.overrideDefaultInlineShortcuts = FALSE])
                      ELSE <<>>
    IN  IF parseMode(m) = "command" THEN
            LET m1 == [removeSuggestion(m) EXCEPT !.suggestionIndex = 0]
                command == extractCommandStringAroundInsertionPoint(m1)
                suggestions == suggest(command \o <<c>>)
                m2 == insert(m1, <<c>>, DefaultOptions)
            IN  IF Len(suggestions) = 0 THEN
                    [m |-> _hidePopover(
                            IF LooksLikeCommand(command \o <<c>>)
                              THEN decorateCommandStringAroundInsertionPoint(m2, TRUE)
                              ELSE m2),
                     popoverText |-> a.popoverText,
                     displayArrows |-> FALSE]
                ELSE
                    [m |-> IF suggestions[1].match # command \o <<c>>
                             THEN insertSuggestion(m2, suggestions[1].match,
                                    -Len(suggestions[1].match) + Len(command) + 1)
                             ELSE m2,
                     popoverText |-> suggestions[1].match,
                     displayArrows |-> Len(suggestions) > 1]
        ELSE IF shortcut # <<>> THEN
            LET m1 == insert(m, <<c>>, DefaultOptions)
                m2 == snapshot(m1)
                m3 == delete(m2, -Len(shortcut[1].match) - 1)
                m4 == insert(m3, shortcut[1].substitute, DefaultOptions)
            IN  [a EXCEPT !.m = [m4 EXCEPT !.matched = TRUE]]
        ELSE
            [a EXCEPT !.m = insert(snapshot(m), <<c>>, DefaultOptions)]

\* The loop body, were a plain character to be inserted before the snapshot.
TypedCharSnapshotsAfter(a, c) ==
    LET m == a.m
        shortcut == IF parseMode(m) = "math"
                      THEN matchEndOf(
                            extractGroupStringBeforeInsertionPoint(m) \o <<c>>,
                            m.config)
                      ELSE <<>>
    IN  IF parseMode(m) = "command" THEN
            LET m1 == [removeSuggestion(m) EXCEPT !.suggestionIndex = 0]
                command == extractCommandStringAroundInsertionPoint(m1)
                suggestions == suggest(command \o <<c>>)
                m2 == insert(m1, <<c>>, DefaultOptions)
            IN  IF Len(suggestions) = 0 THEN
                    [m |-> _hidePopover(
                            IF LooksLikeCommand(command \o <<c>>)
                              THEN decorateCommandStringAroundInsertionPoint(m2, TRUE)
                              ELSE m2),
                     popoverText |-> a.popoverText,
                     displayArrows |-> FALSE]
                ELSE
                    [m |-> IF suggestions[1].match # command \o <<c>>
                             THEN insertSuggestion(m2, suggestions[1].match,
                                    -Len(suggestions[1].match) + Len(command) + 1)
                             ELSE m2,
                     popoverText |-> suggestions[1].match,
                     displayArrows |-> Len(suggestions) > 1]
        ELSE IF shortcut # <<>> THEN
            LET m1 == insert(m, <<c>>, DefaultOptions)
                m2 == snapshot(m1)
                m3 == delete(m2, -Len(shortcut[1].match) - 1)
                m4 == insert(m3, shortcut[1].substitute, DefaultOptions)
            IN  [a EXCEPT !.m = [m4 EXCEPT !.matched = TRUE]]
        ELSE
            [a EXCEPT !.m = snapshot(insert(m, <<c>>, DefaultOptions))]

\* One turn of the loop of _onTypedText over the characters of the text.
\* a holds the field and the loop's popoverText and displayArrows.
TypedChar(a, c) ==
    LET m == a.m
        shortcut == IF parseMode(m) = "math"
                      THEN matchEndOf(
                            extractGroupStringBeforeInsertionPoint(m) \o <<c>>,
                            m.config)
                      ELSE <<>>
    IN  IF parseMode(m) = "command" THEN
            LET m1 == [removeSuggestion(m) EXCEPT !.suggestionIndex = 0]
                command == extractCommandStringAroundInsertionPoint(m1)
                suggestions == suggest(command \o <<c>>)
                m2 == insert(m1, <<c>>, DefaultOptions)
            IN  IF Len(suggestions) = 0 THEN
                    [m |-> _hidePopover(
                            IF LooksLikeCommand(command \o <<c>>)
                              THEN decorateCommandStringAroundInsertionPoint(m2, TRUE)
                              ELSE m2),
                     popoverText |-> a.popoverText,
                     displayArrows |-> FALSE]
                ELSE
                    [m |-> IF suggestions[1].match # command \o <<c>>
                             THEN insertSuggestion(m2, suggestions[1].match,
                                    -Len(suggestions[1].match) + Len(command) + 1)
                             ELSE m2,
                     popoverText |-> suggestions[1].match,
                     displayArrows |-> Len(suggestions) > 1]
        ELSE IF shortcut # <<>> THEN
            LET m1 == insert(m, <<c>>, DefaultOptions)
                m2 == snapshot(m1)
                m3 == delete(m2, -Len(shortcut[1].match) - 1)
                m4 == insert(m3, shortcut[1].substitute, DefaultOptions)
            IN  [a EXCEPT !.m = [m4 EXCEPT !.matched = TRUE]]
        ELSE
            [a EXCEPT !.m = insert(snapshot(m), <<c>>, DefaultOptions)]

RECURSIVE TypedLoop(_, _)
TypedLoop(a, text) ==
    IF text = <<>> THEN a ELSE TypedLoop(TypedChar(a, Head(text)), Tail(text))

\* MathField.prototype._onTypedText (and the public typedText)
_onTypedText(m, text) ==
    LET m0 == decorateCommandStringAroundInsertionPoint(m, FALSE)
        a == IF m0.pasteInProgress
                THEN [m |-> insert([m0 EXCEPT !.pasteInProgress = FALSE],
                                   text, DefaultOptions),
                      popoverText |-> <<>>, displayArrows |-> FALSE]
                ELSE TypedLoop([m |-> m0, popoverText |-> <<>>,
                                displayArrows |-> FALSE], text)
    IN  _showPopoverWithLatex(_render(a.m), a.popoverText, a.displayArrows)

\* latex, were it to replace the content without a snapshot.
latexWithoutSnapshot(m, text) ==
    LET m1 == IF Truthy(text)
                THEN _render(insert(m, text.text,
                        [insertionMode |-> "replaceAll",
                         selectionMode |-> "placeholder",
                         format |-> "latex"]))
                ELSE m
    IN  [m |-> m1, ret |-> ListToLatex(m1.children)]

\* MathField.prototype.latex: the state after it and the string it returns.
latex(m, text) ==
    LET m1 == IF Truthy(text)
                THEN _render(insert(snapshot(m), text.text,
                        [insertionMode |-> "replaceAll",
                         selectionMode |-> "placeholder",
                         format |-> "latex"]))
                ELSE m
    IN  [m |-> m1, ret |-> ListToLatex(m1.children)]

\* MathField.prototype.select
select(m) == selectAll_(m)

\* MathField.prototype.clearSelection
clearSelection(m) == delete_(m, 0)

\* MathField.prototype._onPaste
_onPaste(m) == [m EXCEPT !.pasteInProgress = TRUE]

\* MathField.prototype._onCut: the clearing of the selection is deferred.
_onCut(m) == [m EXCEPT !.timers = Append(@, "cut")]

\* What a deferred task does when the event loop runs it.
RunTimer(m, task) ==
    CASE task = "render" -> _render(m)
      [] task = "cut" -> _render(clearSelection(m))
      [] task = "popover" -> _updatePopoverPosition(m)

(***************************************************************************)
(* Pointer events.  A point of the screen is the position it falls on, or  *)
(* -1 when it falls outside the field.                                     *)
(***************************************************************************)
\* MathField.prototype._pathFromPoint: <<>> or <<position>>.
_pathFromPoint(m, point) ==
    IF point \in 0..Len(m.children) THEN <<point>> ELSE <<>>

\* textarea.focus(): the textarea becomes the active element, and its focus
\* event is delivered when the document has the focus.
TextareaFocus(m) ==
    IF m.active THEN m
    ELSE IF m.docFocus THEN _onFocus([m EXCEPT !.active = TRUE])
    ELSE [m EXCEPT !.active = TRUE]

\* MathField.prototype._onPointerDown.  The calls of off() at its start are
\* given closures made by this very call, so they remove no listener.
_onPointerDown(m, evt) ==
    LET dirty == ~hasFocus(m)
        m1 == IF ~hasFocus(m) THEN TextareaFocus(m) ELSE m
        anchor == _pathFromPoint(m1, evt.point)
    IN  IF ~evt.main THEN m1
        ELSE IF anchor = <<>> THEN (IF dirty THEN _render(m1) ELSE m1)
        ELSE
            LET m2 == IF evt.shiftKey
                        THEN setRange(m1, m1.anchor, anchor[1])
                        ELSE setPath(m1, anchor[1])
                tracked == IF evt.shiftKey THEN m2.anchor - 1 ELSE anchor[1]
                m3 == IF evt.detail = 3 THEN selectAll_(m2)
                      ELSE IF evt.detail = 2 THEN selectGroup_(m2)
                      ELSE [m2 EXCEPT !.listeners = Append(@, tracked)]
            IN  _render(m3)

\* onPointerMove, were it to set the selection without asking the math list
\* whether the paths resolve.
onPointerMoveUnchecked(m, anchor, point) ==
    LET focus == _pathFromPoint(m, point)
    IN  IF focus # <<>>
            THEN [m EXCEPT !.anchor = anchor, !.focus = focus[1],
                           !.timers = Append(@, "render")]
            ELSE m

\* onPointerMove of the pointer-down that recorded anchor.
onPointerMove(m, anchor, point) ==
    LET focus == _pathFromPoint(m, point)
    IN  IF focus # <<>>
            THEN [setRange(m, anchor, focus[1]) EXCEPT !.timers = Append(@, "render")]
            ELSE m

\* A pointer move is delivered to every registered onPointerMove.
RECURSIVE PointerMoved(_, _, _)
PointerMoved(m, anchors, point) ==
    IF anchors = <<>> THEN m
    ELSE PointerMoved(onPointerMove(m, Head(anchors), point), Tail(anchors), point)

\* endPointerTracking: each registered closure removes its own listeners.
endPointerTracking(m) == [m EXCEPT !.listeners = <<>>]

(***************************************************************************)
(* The state.                                                              *)
(*   mf   : the fields of the MathField instance, its math list and its    *)
(*          undo manager; snaps, renders, notified, matched and typed      *)
(*          record what the last operation has done                        *)
(*   doc  : the document: focus, pending timers, pointer listeners         *)
(*   call : the last operation, its arguments and its outcome              *)
(*   hist : the run of typed characters, undos and redos in progress       *)
(*   reg  : the module's registry of math fields and the page's elements   *)
(*   rt   : a LaTeX source text, its parse and the copies made of it       *)
(*   left : the number of operations the run may still carry out           *)
(***************************************************************************)
VARIABLES mf, doc, call, hist, reg, rt, left

vars == <<mf, doc, call, hist, reg, rt, left>>

\* The characters that are typed, the texts that are typed or pasted, the
\* texts the element holds at construction, the arguments of latex and
\* insert, and the keys that are pressed.
TypedTexts == {<<"p">>, <<"i">>, <<"p", "i">>}
ElementTexts == {<<>>, <<"x">>}
LatexTexts == {Undefined, Str(<<>>), Str(<<"x">>)}
PlaceholderX == <<BS>> \o PlaceholderName \o <<" ", "x">>
Fragments == {Undefined, Str(<<>>), Str(<<"x">>), Str(PlaceholderX)}
InsertionModes == {"replaceSelection", "replaceAll", "insertBefore", "insertAfter"}
SelectionModes == {"placeholder", "after", "before", "item"}
Options(im, sm) == [insertionMode |-> im, selectionMode |-> sm, format |-> "auto"]
Keys == {e.key : e \in KEYBOARD_SHORTCUTS} \cup {"F13"}
UnknownNames == {"latex", "_render", "frobnicate"}
CommandNames ==
    {"delete", "deletePreviousChar", "deleteNextChar", "deleteToMathFieldEnd",
     "moveToNextChar", "moveToPreviousChar", "selectAll", "selectGroup",
     "undo", "redo", "scrollIntoView", "enterCommandMode", "insert",
     "complete", "nextSuggestion", "previousSuggestion"} \cup UnknownNames
Configs == {[spacesBehavesLikeTab |-> FALSE, inlineShortcuts |-> {},
             overrideDefaultInlineShortcuts |-> FALSE]}

World == mf @@ doc
FieldOf(w) == [k \in DOMAIN mf |-> w[k]]
DocOf(w) == [k \in DOMAIN doc |-> w[k]]

\* The record of what an operation does starts empty.
Begin(w) == [w EXCEPT !.snaps = 0, !.renders = 0, !.notified = FALSE,
                      !.matched = FALSE, !.typed = FALSE, !.handlers = <<>>]

Within(w) ==
    /\ Len(w.children) <= MaxLen
    /\ Len(w.stack) <= MaxUndo
    /\ Len(w.timers) <= MaxTimers
    /\ Len(w.listeners) <= MaxListeners
    /\ w.suggestionIndex <= MaxIndex

\* The last operation: what it was, what it returned (out is the string
\* latex returns) and whether it raised; for insert, the selection mode
\* asked for and whether there was a selection to replace.
Called(op, ret, out, raised) ==
    [op |-> op, ret |-> ret, out |-> out, raised |-> raised,
     selectionMode |-> "", replaced |-> FALSE]

NoHist == [n |-> 0, undone |-> 0, redone |-> 0, target |-> <<>>,
           shortcut |-> "none", redo |-> "none", cut |-> <<>>]

\* Whether typing text is typing one character in math mode.
PlainTyping(text) ==
    Len(text) = 1 /\ parseMode(mf @@ doc) = "math" /\ ~mf.pasteInProgress

\* A character typed in math mode that completes no shortcut extends the
\* run, an undo or a redo in its turn continues it, anything else ends it.
\* shortcut tells whether the last operation typed a character that
\* completed an inline shortcut, or was the undo right after that.
\* What an atom is, its flags aside: its type, its characters and those of
\* its superscript.
Content(atoms) ==
    [k \in 1..Len(atoms) |->
        [type |-> atoms[k].type, value |-> atoms[k].value,
         sup |-> [j \in 1..Len(atoms[k].sup) |-> atoms[k].sup[j].value]]]

\* cut holds the atoms that were selected when the oldest cut event still
\* waiting for its deferred deletion was handled.
CutAfter(c, w) ==
    IF c.op = "cut" /\ \A k \in DOMAIN doc.timers : doc.timers[k] # "cut"
        THEN Content(Strip(extractContents(World)))
    ELSE IF c.op = "timer" /\ Head(doc.timers) = "cut" THEN <<>>
    ELSE hist.cut

\* redo tells whether the last operation took a snapshot while there was
\* history beyond the cursor ("cut"), or was the redo right after that.
RedoAfter(c, w) ==
    IF w.snaps > 0 /\ mf.index < Len(mf.stack) THEN "cut"
    ELSE IF c.op = "redo" /\ hist.redo = "cut" THEN "redone"
    ELSE "none"

RunAfter(c, w) ==
    IF c.op = "typedText" /\ w.typed /\ ~w.matched
        THEN [n |-> IF hist.undone = 0 THEN hist.n + 1 ELSE 1,
              undone |-> 0, redone |-> 0, target |-> Strip(w.children),
              shortcut |-> "none", redo |-> "none", cut |-> <<>>]
    ELSE IF c.op = "typedText" /\ w.typed /\ w.matched
        THEN [NoHist EXCEPT !.shortcut = "typed"]
    ELSE IF c.op = "undo" /\ hist.shortcut = "typed"
        THEN [NoHist EXCEPT !.shortcut = "undone"]
    ELSE IF c.op = "undo" /\ hist.redone = 0 /\ hist.undone < hist.n
        THEN [hist EXCEPT !.undone = @ + 1]
    ELSE IF c.op = "redo" /\ hist.undone = hist.n /\ hist.redone < hist.n
        THEN [hist EXCEPT !.redone = @ + 1]
    ELSE NoHist

HistAfter(c, w) ==
    [RunAfter(c, w) EXCEPT !.redo = RedoAfter(c, w), !.cut = CutAfter(c, w)]

Commit(w, c) ==
    /\ left > 0
    /\ Within(w)
    /\ mf' = FieldOf(w)
    /\ doc' = DocOf(w)
    /\ call' = c
    /\ hist' = HistAfter(c, w)
    /\ left' = left - 1
    /\ UNCHANGED <<reg, rt>>

\* The step of an operation that gave the field r.m and the result r.ret,
\* or raised.
Returned(op, r) == Commit(r.m, Called(op, r.ret, <<>>, r.raised))
Performed(r) ==
    Commit(r.m, Called("perform", IF r.ret THEN "true" ELSE "false", <<>>, FALSE))
Serialized(r) == Commit(r.m, Called("latex", "string", r.ret, FALSE))

\* new MathField(element, config): lines 86-215.
Construct(elementText, config, docFocus) ==
    LET m == [children |-> <<>>, rootCaret |-> FALSE, anchor |-> 0, focus |-> 0,
              stack |-> <<>>, index |-> 0, suggestionIndex |-> 0,
              pasteInProgress |-> FALSE, blurred |-> TRUE, popover |-> FALSE,
              arrows |-> FALSE, textarea |-> <<>>, seen |-> <<>>,
              field |-> [children |-> <<>>, rootCaret |-> FALSE,
                         anchor |-> 0, focus |-> 0],
              config |-> config,
              snaps |-> 0, renders |-> 0, notified |-> FALSE, matched |-> FALSE,
              typed |-> FALSE, handlers |-> <<>>,
              docFocus |-> docFocus, active |-> FALSE, timers |-> <<>>,
              listeners |-> <<>>]
    IN  IF Len(elementText) > 0 THEN latex(m, Str(elementText)).m ELSE m

DocFields == {"docFocus", "active", "timers", "listeners"}

\* The registry and the source text when they are not what is looked at.
NoLookup == [kind |-> "none", el |-> 0]
NoResult == [kind |-> "none", id |-> 0]
NoRegistry == [mathfields |-> <<>>, mathfieldID |-> 0, attribute |-> <<>>,
               arg |-> NoLookup, found |-> NoResult, instances |-> <<>>]
NoSource == [src |-> <<>>, phase |-> "idle", atoms |-> <<>>, once |-> <<>>,
             twice |-> <<>>, selection |-> <<>>, clone |-> <<>>,
             ctx |-> <<>>, offered |-> <<>>]

\* The state after new MathField(element, config).
BuiltWith(configs) ==
    \E elementText \in ElementTexts, config \in configs, docFocus \in BOOLEAN :
        LET w == Construct(elementText, config, docFocus)
        IN  /\ mf = [k \in (DOMAIN w) \ DocFields |-> w[k]]
            /\ doc = [k \in DocFields |-> w[k]]
            /\ call = Called("new", "undefined", <<>>, FALSE)
            /\ hist = NoHist

Constructed == BuiltWith(Configs)

(***************************************************************************)
(* The operations of the public interface.                                 *)
(***************************************************************************)
Perform(command) == Performed(perform(Begin(World), command))

Keystroke(keys) == Returned("keystroke", keystroke(Begin(World), keys))

TypedText(text) ==
    Commit([_onTypedText(Begin(World), text) EXCEPT !.typed = PlainTyping(text)],
           Called("typedText", "undefined", <<>>, FALSE))

Latex(text) == Serialized(latex(Begin(World), text))

Insert(fragment, options) ==
    Commit(MathFieldInsert(Begin(World), fragment, options),
           [Called("insert", "undefined", <<>>, FALSE)
                EXCEPT !.selectionMode = options.selectionMode,
                       !.replaced = ~Collapsed(mf)])

Select ==
    Commit(select(Begin(World)), Called("select", "undefined", <<>>, FALSE))

ClearSelection ==
    Commit(clearSelection(Begin(World)),
           Called("clearSelection", "undefined", <<>>, FALSE))

Undo ==
    Commit(undo(Begin(World)), Called("undo", "undefined", <<>>, FALSE))

Redo ==
    Commit(redo(Begin(World)), Called("redo", "undefined", <<>>, FALSE))

(***************************************************************************)
(* The events the browser delivers.                                        *)
(***************************************************************************)
KeystrokeEvent(key) ==
    Returned("_onKeystroke", _onKeystroke(Begin(World), key, TRUE))

PointerDown(evt) ==
    Commit(_onPointerDown(Begin(World), evt),
           Called("pointerDown", "undefined", <<>>, FALSE))

PointerMove(point) ==
    /\ doc.listeners # <<>>
    /\ Commit(PointerMoved(Begin(World), doc.listeners, point),
              Called("pointerMove", "undefined", <<>>, FALSE))

PointerUp ==
    /\ doc.listeners # <<>>
    /\ Commit(endPointerTracking(Begin(World)),
              Called("pointerUp", "undefined", <<>>, FALSE))

Paste ==
    /\ ~mf.pasteInProgress
    /\ Commit(_onPaste(Begin(World)), Called("paste", "true", <<>>, FALSE))

Cut ==
    Commit(_onCut(Begin(World)), Called("cut", "true", <<>>, FALSE))

\* The event loop runs the oldest deferred task.
Timer ==
    /\ doc.timers # <<>>
    /\ Commit(RunTimer([Begin(World) EXCEPT !.timers = Tail(@)], Head(doc.timers)),
              Called("timer", "undefined", <<>>, FALSE))

\* The window gains the focus: its focus listener is _onFocus.
WindowFocus ==
    /\ ~doc.docFocus
    /\ Commit(_onFocus([Begin(World) EXCEPT !.docFocus = TRUE]),
              Called("windowFocus", "undefined", <<>>, FALSE))

\* The window loses the focus: its blur listeners are _onBlur and every
\* registered endPointerTracking.
WindowBlur ==
    /\ doc.docFocus
    /\ Commit(endPointerTracking(_onBlur([Begin(World) EXCEPT !.docFocus = FALSE])),
              Called("windowBlur", "undefined", <<>>, FALSE))

\* The user moves the keyboard focus to the textarea, or away from it.
FocusIn ==
    /\ doc.docFocus /\ ~doc.active
    /\ Commit(TextareaFocus(Begin(World)),
              Called("focusIn", "undefined", <<>>, FALSE))

FocusOut ==
    /\ doc.docFocus /\ doc.active
    /\ Commit(_onBlur([Begin(World) EXCEPT !.active = FALSE]),
              Called("focusOut", "undefined", <<>>, FALSE))

PointerEvents ==
    [point : -1..MaxLen, shiftKey : BOOLEAN, detail : 1..3, main : BOOLEAN]

Commands ==
    {Command(n) : n \in CommandNames}
        \cup {[Command("insert") EXCEPT !.latex = Str(<<"x">>)]}

Next ==
    \/ \E command \in Commands : Perform(command)
    \/ \E keys \in Keys : Keystroke(keys)
    \/ \E key \in Keys : KeystrokeEvent(key)
    \/ \E text \in TypedTexts : TypedText(text)
    \/ \E text \in LatexTexts : Latex(text)
    \/ \E fragment \in Fragments, sm \in SelectionModes :
            Insert(fragment, Options("replaceSelection", sm))
    \/ Select
    \/ ClearSelection
    \/ Undo
    \/ Redo
    \/ \E evt \in PointerEvents : PointerDown(evt)
    \/ \E point \in -1..MaxLen : PointerMove(point)
    \/ PointerUp
    \/ Paste
    \/ Cut
    \/ Timer
    \/ WindowFocus
    \/ WindowBlur
    \/ FocusIn
    \/ FocusOut

Init == Constructed /\ reg = NoRegistry /\ rt = NoSource /\ left = MaxSteps

Spec == Init /\ [][Next]_vars

\* Typing, undoing and performing commands, at greater length.
InitEdit == Constructed /\ reg = NoRegistry /\ rt = NoSource /\ left = MaxDeep

NextEdit ==
    \/ \E command \in Commands : Perform(command)
    \/ \E text \in TypedTexts : TypedText(text)
    \/ Undo
    \/ Redo

SpecEdit == InitEdit /\ [][NextEdit]_vars

\* Inserting with every option on every selection.
NextInsert ==
    \/ \E fragment \in Fragments, im \in InsertionModes, sm \in SelectionModes :
            Insert(fragment, Options(im, sm))
    \/ Select
    \/ \E text \in TypedTexts : TypedText(text)

SpecInsert == InitEdit /\ [][NextInsert]_vars

\* A drag of the pointer, with edits between its events.
NextPointer ==
    \/ \E evt \in PointerEvents : PointerDown(evt)
    \/ \E point \in -1..MaxLen : PointerMove(point)
    \/ PointerUp
    \/ \E text \in TypedTexts : TypedText(text)
    \/ \E key \in {"Backspace", "Meta-KeyZ"} : KeystrokeEvent(key)
    \/ Timer

SpecPointer == InitEdit /\ [][NextPointer]_vars

\* Command mode: entering it, typing a command, choosing among the
\* suggestions and completing.
CommandTexts == {<<"p">>, <<"i">>, <<"1">>, <<"i", "1">>}
CommandKeys == {"Return", "ArrowDown", "ArrowUp", "Backspace"}

NextCommand ==
    \/ \E name \in {"enterCommandMode", "complete"} : Perform(Command(name))
    \/ \E text \in CommandTexts : TypedText(text)
    \/ \E key \in CommandKeys : KeystrokeEvent(key)
    \/ Paste

SpecCommand == InitEdit /\ [][NextCommand]_vars

\* Typing in fields built with configurations that define inline shortcuts
\* or switch the built-in ones off.
UserShortcuts ==
    {[key |-> <<"p", "i">>, substitute |-> <<"x">>],
     [key |-> <<"i", "i">>, substitute |-> <<"x">>]}
ShortcutConfigs ==
    {[spacesBehavesLikeTab |-> FALSE, inlineShortcuts |-> s,
      overrideDefaultInlineShortcuts |-> o] :
        s \in {{}} \cup {{u} : u \in UserShortcuts}, o \in BOOLEAN}

InitShortcuts ==
    BuiltWith(ShortcutConfigs) /\ reg = NoRegistry /\ rt = NoSource /\ left = MaxDeep

NextShortcuts ==
    \/ \E text \in TypedTexts : TypedText(text)
    \/ \E key \in {"Backspace", "ArrowLeft"} : KeystrokeEvent(key)
    \/ Undo

SpecShortcuts == InitShortcuts /\ [][NextShortcuts]_vars

(***************************************************************************)
(* The registry of math fields: the module's mathfields and mathfieldID,   *)
(* and MathField called with and without new.  An element of the page is a *)
(* number; attribute is the value of its mathlive-block-id attribute, -1   *)
(* when it has none.                                                       *)
(***************************************************************************)
Elements == 1..MaxElements

\* What MathField is called with: an element, null, or an object that is no
\* DOM node.
LookupArgs ==
    {[kind |-> "element", el |-> e] : e \in Elements}
        \cup {[kind |-> "null", el |-> 0], [kind |-> "object", el |-> 0]}

\* The registration, were the counter of ids not to advance.
RegisterSameID(r, element) ==
    [r EXCEPT !.mathfields = IF @ = <<>> THEN <<element>> ELSE [@ EXCEPT ![1] = element],
              !.arg = NoLookup, !.found = NoResult]

\* new MathField(element, config), lines 94-99: the instance gets the next
\* id and is recorded under it.  Nothing is written on the element.
Register(r, element) ==
    [r EXCEPT !.mathfields = Append(@, element),
              !.mathfieldID = @ + 1,
              !.arg = NoLookup, !.found = NoResult]

\* MathField(element) called without new, lines 74-86.
Lookup(r, arg) ==
    IF arg.kind # "element" THEN [kind |-> "null", id |-> 0]
    ELSE IF r.attribute[arg.el] # -1 THEN
        (IF r.attribute[arg.el] + 1 \in DOMAIN r.mathfields
            THEN [kind |-> "instance", id |-> r.attribute[arg.el]]
            ELSE [kind |-> "undefined", id |-> 0])
    ELSE [kind |-> "undefined", id |-> 0]

\* The ids of the instances bound to an element.
BoundTo(r, element) ==
    {id \in 0..(Len(r.mathfields) - 1) : r.mathfields[id + 1] = element}

New(element) ==
    /\ reg.mathfieldID < MaxFields
    /\ reg' = Register(reg, element)
    /\ call' = Called("new", "undefined", <<>>, FALSE)
    /\ UNCHANGED <<mf, doc, hist, rt, left>>

MathFieldCalled(arg) ==
    /\ reg' = [reg EXCEPT !.arg = arg, !.found = Lookup(reg, arg)]
    /\ call' = Called("MathField", Lookup(reg, arg).kind, <<>>, FALSE)
    /\ UNCHANGED <<mf, doc, hist, rt, left>>

\* The page's markup may carry the attribute on an element.
InitRegistry ==
    /\ Constructed
    /\ \E attribute \in [Elements -> {-1, 0}] :
            reg = [NoRegistry EXCEPT !.attribute = attribute]
    /\ rt = NoSource
    /\ left = 0

NextRegistry ==
    \/ \E element \in Elements : New(element)
    \/ \E arg \in LookupArgs : MathFieldCalled(arg)

SpecRegistry == InitRegistry /\ [][NextRegistry]_vars

(***************************************************************************)
(* Several math fields on a page.  Each instance built by new MathField    *)
(* has its own math list, undo manager and configuration; the module's     *)
(* registry and the document's active element are what they share.         *)
(* reg.instances holds, for each instance built, its id and its state.     *)
(***************************************************************************)
\* The config argument of new MathField: an object, or left out.
ConfigArgs == Configs \cup {Undefined}

\* MathField.prototype.config (lines 1345-1360): the defaults, overwritten by
\* the own properties of the argument; `config || {}` (line 91) makes an
\* omitted argument an empty object.
config(arg) ==
    LET def == [spacesBehavesLikeTab |-> FALSE]
        given == IF arg = Undefined THEN <<>> ELSE arg
        absent == [inlineShortcuts |-> {}, overrideDefaultInlineShortcuts |-> FALSE]
    IN  [k \in DOMAIN def \cup DOMAIN absent |->
            IF k \in DOMAIN given THEN given[k]
            ELSE IF k \in DOMAIN def THEN def[k] ELSE absent[k]]

\* Whether the constructor runs to its end: config.substituteTextArea at
\* line 109 reads a property of the argument itself, and raises a TypeError
\* when the argument was left out.
ConstructorRaises(arg) == arg = Undefined

\* The element that becomes the active element takes the focus from the
\* textarea of another instance, whose blur handler then runs.
FocusLost(w, taken) ==
    IF taken /\ w.active THEN _onBlur([w EXCEPT !.active = FALSE]) ELSE w

\* An operation of instance i that leaves it in state w.
Acted(i, w, op) ==
    /\ left > 0
    /\ Within(w)
    /\ reg' = [reg EXCEPT
                !.instances = [j \in DOMAIN reg.instances |->
                    IF j = i THEN [reg.instances[j] EXCEPT !.w = w]
                    ELSE [reg.instances[j] EXCEPT
                            !.w = FocusLost(@, w.active /\ ~reg.instances[i].w.active)]],
                !.arg = [kind |-> "instance", el |-> i],
                !.found = NoResult]
    /\ call' = Called(op, "undefined", <<>>, FALSE)
    /\ left' = left - 1
    /\ UNCHANGED <<mf, doc, hist, rt>>

\* new MathField(element, arg), lines 86-215.  The instance is registered
\* (lines 93-97) before line 109 is reached, so a constructor that raises
\* leaves its id taken.
NewField(element, elementText, arg) ==
    /\ left > 0
    /\ Len(reg.instances) < MaxInstances
    /\ reg.mathfieldID < MaxFields
    /\ reg' = [Register(reg, element) EXCEPT
                !.instances =
                    IF ConstructorRaises(arg) THEN @
                    ELSE Append(@, [id |-> reg.mathfieldID,
                                    w |-> Construct(elementText, config(arg), TRUE)]),
                !.arg = [kind |-> IF arg = Undefined THEN "omitted" ELSE "config",
                         el |-> element]]
    /\ call' = Called("new", IF ConstructorRaises(arg) THEN "none" ELSE "instance",
                       <<>>, ConstructorRaises(arg))
    /\ left' = left - 1
    /\ UNCHANGED <<mf, doc, hist, rt>>

Instance(i) == Begin(reg.instances[i].w)

FieldTypedText(i, text) == Acted(i, _onTypedText(Instance(i), text), "typedText")
FieldPerform(i, command) == Acted(i, perform(Instance(i), command).m, "perform")
FieldUndo(i) == Acted(i, undo(Instance(i)), "undo")
FieldPointerDown(i, evt) == Acted(i, _onPointerDown(Instance(i), evt), "pointerDown")
FieldCommands == {Command("deletePreviousChar"), Command("enterCommandMode")}
FieldPointerEvents ==
    {[point |-> p, shiftKey |-> s, detail |-> 1, main |-> TRUE] :
        p \in 0..1, s \in BOOLEAN}

InitFields ==
    /\ Constructed /\ mf.children = <<>> /\ ~doc.docFocus
    /\ reg = [NoRegistry EXCEPT !.attribute = [e \in Elements |-> -1]]
    /\ rt = NoSource
    /\ left = MaxDeep

NextFields ==
    \/ \E element \in Elements, elementText \in ElementTexts, arg \in ConfigArgs :
            NewField(element, elementText, arg)
    \/ \E i \in DOMAIN reg.instances, text \in TypedTexts : FieldTypedText(i, text)
    \/ \E i \in DOMAIN reg.instances, command \in FieldCommands :
            FieldPerform(i, command)
    \/ \E i \in DOMAIN reg.instances : FieldUndo(i)
    \/ \E i \in DOMAIN reg.instances, evt \in FieldPointerEvents :
            FieldPointerDown(i, evt)

SpecFields == InitFields /\ [][NextFields]_vars

\* The window's focus and blur events on a page of several fields: every
\* instance has registered its own _onFocus and _onBlur on window (lines
\* 170-171), so each of them runs.
PageEvent(docFocus) ==
    /\ left > 0
    /\ \A j \in DOMAIN reg.instances : reg.instances[j].w.docFocus # docFocus
    /\ reg' = [reg EXCEPT
                !.instances = [j \in DOMAIN reg.instances |->
                    [reg.instances[j] EXCEPT
                        !.w = IF docFocus
                                THEN _onFocus([Begin(@) EXCEPT !.docFocus = TRUE])
                                ELSE endPointerTracking(
                                        _onBlur([Begin(@) EXCEPT !.docFocus = FALSE]))]],
                !.arg = [kind |-> "window", el |-> 0],
                !.found = NoResult]
    /\ call' = Called(IF docFocus THEN "windowFocus" ELSE "windowBlur",
                       "undefined", <<>>, FALSE)
    /\ left' = left - 1
    /\ UNCHANGED <<mf, doc, hist, rt>>

\* The textarea of instance i takes the keyboard focus, or gives it up to an
\* element that belongs to no field (the focus and blur callbacks of lines
\* 184-185).
FieldFocusIn(i) ==
    /\ reg.instances[i].w.docFocus /\ ~reg.instances[i].w.active
    /\ Acted(i, TextareaFocus(Instance(i)), "focusIn")

FieldFocusOut(i) ==
    /\ reg.instances[i].w.docFocus /\ reg.instances[i].w.active
    /\ Acted(i, _onBlur([Instance(i) EXCEPT !.active = FALSE]), "focusOut")

\* A page on which MaxInstances fields have been built.
InitFocus ==
    /\ Constructed /\ mf.children = <<>> /\ ~doc.docFocus
    /\ \E docFocus \in BOOLEAN :
        \E texts \in [1..MaxInstances -> ElementTexts] :
            reg = [NoRegistry EXCEPT
                    !.attribute = [e \in Elements |-> -1],
                    !.mathfields = [i \in 1..MaxInstances |-> i],
                    !.mathfieldID = MaxInstances,
                    !.instances = [i \in 1..MaxInstances |->
                        [id |-> i - 1,
                         w |-> Construct(texts[i], config(Undefined), docFocus)]]]
    /\ rt = NoSource
    /\ left = MaxDeep

NextFocus ==
    \/ \E docFocus \in BOOLEAN : PageEvent(docFocus)
    \/ \E i \in DOMAIN reg.instances : FieldFocusIn(i)
    \/ \E i \in DOMAIN reg.instances : FieldFocusOut(i)
    \/ \E i \in DOMAIN reg.instances, text \in TypedTexts : FieldTypedText(i, text)

SpecFocus == InitFocus /\ [][NextFocus]_vars

(***************************************************************************)
(* Parsing and serializing a source text, and the copy of a selection that *)
(* latexToMarkup of editor-commands.js makes for Commands.suggest.         *)
(***************************************************************************)
\* The LaTeX of the last atom alone.
SelectionToLatexOfLast(arg) ==
    IF arg = <<>> THEN <<>> ELSE toLatex(arg[Len(arg)])

\* latexToMarkup, lines 362-365: the LaTeX of the atoms, one after another.
RECURSIVE SelectionToLatex(_)
SelectionToLatex(arg) ==
    IF arg = <<>> THEN <<>> ELSE toLatex(Head(arg)) \o SelectionToLatex(Tail(arg))

\* latexToMarkup, lines 357-369: args, holding the copy of the selection.
latexToMarkupArgs(arg) ==
    IF Len(arg) > 0
        THEN <<parseTokens(tokenize(SelectionToLatex(arg)))>>
        ELSE <<>>

RECURSIVE Texts(_)
Texts(n) ==
    IF n = 0 THEN {<<>>}
    ELSE Texts(n - 1) \cup {Append(s, c) : s \in Texts(n - 1), c \in SrcChars}

Parse ==
    /\ rt.phase = "source"
    /\ rt' = [rt EXCEPT !.phase = "parsed",
                        !.atoms = ParseLatex(rt.src),
                        !.once = ListToLatex(ParseLatex(rt.src)),
                        !.twice = ListToLatex(ParseLatex(
                                    ListToLatex(ParseLatex(rt.src))))]
    /\ UNCHANGED <<mf, doc, call, hist, reg, left>>

\* Commands.suggest with the atoms lo..hi of the parse selected.
Suggest(lo, hi) ==
    /\ rt.phase = "parsed"
    /\ lo <= hi /\ hi <= Len(rt.atoms)
    /\ LET selection == SubSeq(rt.atoms, lo, hi)
       IN  rt' = [rt EXCEPT !.phase = "suggested",
                            !.selection = selection,
                            !.clone = latexToMarkupArgs(selection)[1]]
    /\ UNCHANGED <<mf, doc, call, hist, reg, left>>

InitRoundTrip ==
    /\ Constructed
    /\ reg = NoRegistry
    /\ \E src \in Texts(MaxSrcLen) :
            rt = [NoSource EXCEPT !.src = src, !.phase = "source"]
    /\ left = 0

NextRoundTrip ==
    \/ Parse
    \/ \E lo \in 1..MaxSrcLen, hi \in 1..MaxSrcLen : Suggest(lo, hi)

SpecRoundTrip == InitRoundTrip /\ [][NextRoundTrip]_vars

(***************************************************************************)
(* The command bar (editor-commands.js): the table of commands, the        *)
(* conditions on the insertion context, and Commands.suggest.  A context   *)
(* holds the parse mode, the parent's type, and the atoms before the       *)
(* selection and in it, each an array or null.                             *)
(***************************************************************************)
Null == [isNull |-> TRUE, atoms |-> <<>>]
Array(atoms) == [isNull |-> FALSE, atoms |-> atoms]

UpperCase == {"A", "B", "C", "D", "E", "F", "G", "H", "I", "J", "K", "L", "M",
              "N", "O", "P", "Q", "R", "S", "T", "U", "V", "W", "X", "Y", "Z"}
LowerCase == {"a", "b", "c", "d", "e", "f", "g", "h", "i", "j", "k", "l", "m",
              "n", "o", "p", "q", "r", "s", "t", "u", "v", "w", "x", "y", "z"}
Digits == {"0", "1", "2", "3", "4", "5", "6", "7", "8", "9"}

\* The filter of the selectionIsSingle... conditions: the atoms of the
\* selection that are ordinary and whose value is one character of the class.
RECURSIVE Filter(_, _)
Filter(atoms, class) ==
    IF atoms = <<>> THEN <<>>
    ELSE (IF Head(atoms).type = "mord" /\ Len(Head(atoms).value) = 1
             /\ Head(atoms).value[1] \in class
            THEN <<Head(atoms)>> ELSE <<>>) \o Filter(Tail(atoms), class)

\* The conditions, were they to ask that the selection be one atom.
selectionIsOneAtomOf(ctx, class) ==
    /\ ~ctx.selection.isNull
    /\ Len(ctx.selection.atoms) = 1
    /\ Len(Filter(ctx.selection.atoms, class)) = 1

selectionIsSingle(ctx, class) ==
    ~ctx.selection.isNull /\ Len(Filter(ctx.selection.atoms, class)) = 1

notInCommandMode(ctx) == ctx.selection.isNull /\ ctx.parsemode # "command"
inCommandMode(ctx) == ctx.parsemode = "command"
selectionIsNotEmpty(ctx) == ~ctx.selection.isNull
selectionIsSingleUppercaseCharOrDigit(ctx) ==
    selectionIsSingle(ctx, UpperCase \cup Digits)
selectionIsSingleUppercaseChar(ctx) == selectionIsSingle(ctx, UpperCase)
selectionIsSingleAlphaChar(ctx) ==
    selectionIsSingle(ctx, LowerCase \cup UpperCase)
\* The zero-width space, U+200B.
ZeroWidthSpace == "u200b"

supsubCandidate(ctx) ==
    /\ ~ctx.before.isNull
    /\ ctx.parent = "root"
    /\ Last(ctx.before.atoms).type \in {"mclose", "mord"}
    /\ Last(ctx.before.atoms).value # <<ZeroWidthSpace>>

\* COMMANDS: the label (the ARIA label of the glyphs), the condition and the
\* utility of each command.
COMMANDS ==
    << [label |-> "Left", condition |-> "none", utility |-> 1004],
       [label |-> "Right", condition |-> "none", utility |-> 1003],
       [label |-> "Tab", condition |-> "notInCommandMode", utility |-> 1002],
       [label |-> "Backspace", condition |-> "none", utility |-> 1001],
       [label |-> "Copy as LaTeX", condition |-> "selectionIsNotEmpty",
        utility |-> 900],
       [label |-> "Fraktur", condition |-> "selectionIsSingleUppercaseChar",
        utility |-> 400],
       [label |-> "Calligraphic", condition |-> "selectionIsSingleUppercaseChar",
        utility |-> 400],
       [label |-> "Blackboard", condition |-> "selectionIsSingleUppercaseChar",
        utility |-> 500],
       [label |-> "Script", condition |-> "selectionIsSingleUppercaseChar",
        utility |-> 300],
       [label |-> "Sans Serif",
        condition |-> "selectionIsSingleUppercaseCharOrDigit", utility |-> 100],
       [label |-> "Typewriter", condition |-> "selectionIsNotEmpty",
        utility |-> 100],
       [label |-> "Bold", condition |-> "selectionIsNotEmpty", utility |-> 400],
       [label |-> "Vector", condition |-> "selectionIsSingleAlphaChar",
        utility |-> 400],
       [label |-> "Bar", condition |-> "selectionIsSingleAlphaChar",
        utility |-> 300],
       [label |-> "Superscript", condition |-> "supsubCandidate",
        utility |-> 700],
       [label |-> "Subscript", condition |-> "supsubCandidate", utility |-> 500],
       [label |-> "Command", condition |-> "notInCommandMode", utility |-> 800],
       [label |-> "Complete", condition |-> "inCommandMode", utility |-> 800] >>

\* command.condition(ctx), or that the command has no condition.
Applies(command, ctx) ==
    CASE command.condition = "none" -> TRUE
      [] command.condition = "notInCommandMode" -> notInCommandMode(ctx)
      [] command.condition = "inCommandMode" -> inCommandMode(ctx)
      [] command.condition = "selectionIsNotEmpty" -> selectionIsNotEmpty(ctx)
      [] command.condition = "selectionIsSingleUppercaseChar" ->
            selectionIsSingleUppercaseChar(ctx)
      [] command.condition = "selectionIsSingleUppercaseCharOrDigit" ->
            selectionIsSingleUppercaseCharOrDigit(ctx)
      [] command.condition = "selectionIsSingleAlphaChar" ->
            selectionIsSingleAlphaChar(ctx)
      [] command.condition = "supsubCandidate" -> supsubCandidate(ctx)

\* The loop of suggest: the commands whose condition holds, in table order.
RECURSIVE Pushed(_, _)
Pushed(ctx, k) ==
    IF k > Len(COMMANDS) THEN <<>>
    ELSE (IF Applies(COMMANDS[k], ctx)
            THEN <<[label |-> COMMANDS[k].label, utility |-> COMMANDS[k].utility]>>
            ELSE <<>>) \o Pushed(ctx, k + 1)

\* result.sort by decreasing utility; commands of equal utility are kept in
\* table order, and nothing below depends on their order.
RECURSIVE Sorted(_)
Sorted(result) ==
    IF result = <<>> THEN <<>>
    ELSE LET k == CHOOSE i \in DOMAIN result :
                    /\ \A j \in DOMAIN result : result[j].utility <= result[i].utility
                    /\ \A j \in 1..(i - 1) : result[j].utility < result[i].utility
         IN  <<result[k]>> \o
             Sorted(SubSeq(result, 1, k - 1) \o SubSeq(result, k + 1, Len(result)))

\* Commands.suggest.
suggestCommands(ctx) == Sorted(Pushed(ctx, 1))

\* The contexts suggest is called with.
CtxAtoms ==
    {Atom("mord", <<"A">>), Atom("mord", <<"b">>), Atom("mord", <<"1">>),
     Atom("mbin", <<"+">>)}
RECURSIVE Lists(_)
Lists(n) ==
    IF n = 0 THEN {<<>>}
    ELSE Lists(n - 1) \cup {Append(s, a) : s \in Lists(n - 1), a \in CtxAtoms}
Contexts ==
    {[parsemode |-> p, parent |-> "root", before |-> b, selection |-> s] :
        p \in {"math", "command"},
        b \in {Null} \cup {Array(<<a>>) : a \in CtxAtoms},
        s \in {Null} \cup {Array(l) : l \in Lists(MaxLen)}}

CommandBar ==
    /\ rt.phase = "context"
    /\ rt' = [rt EXCEPT !.phase = "offered",
                        !.offered = suggestCommands(rt.ctx)]
    /\ UNCHANGED <<mf, doc, call, hist, reg, left>>

InitSuggest ==
    /\ BuiltWith(Configs) /\ mf.children = <<>> /\ ~doc.docFocus
    /\ reg = NoRegistry
    /\ \E ctx \in Contexts : rt = [NoSource EXCEPT !.phase = "context", !.ctx = ctx]
    /\ left = 0

NextSuggest == CommandBar

SpecSuggest == InitSuggest /\ [][NextSuggest]_vars

(***************************************************************************)
(* Properties.                                                             *)
(***************************************************************************)
\* The tree without its transient flags, and the characters of its atoms.
Tree(m) == Strip(m.children)
Chars(atoms) == [k \in 1..Len(atoms) |->
                    IF Len(atoms[k].value) = 1 THEN atoms[k].value[1] ELSE "?"]

\* Whether the characters key stand in a row in s.
HasRun(s, key) ==
    \E k \in 1..Len(s) : SubSeq(s, k, k + Len(key) - 1) = key

\* Whether the last render shows the tree and the selection as they are.
InSync(m) ==
    /\ Strip(m.field.children) = Strip(m.children)
    /\ m.field.anchor = m.anchor
    /\ m.field.focus = m.focus

Selectors == MathlistSelectors \cup MathFieldSelectors

\* C1: perform of a command whose selector (its name and '_') is neither an
\* operation of the math list nor one of the math field returns false and
\* does nothing: tree, selection and undo stack are as before, no snapshot
\* is taken, nothing is rendered, nothing is raised.
C1_UnknownCommandIsNoOp ==
    [][\A command \in Commands :
        (Perform(command) /\ (command.name \o "_") \notin Selectors)
            => /\ call'.ret = "false"
               /\ ~call'.raised
               /\ mf'.children = mf.children
               /\ mf'.anchor = mf.anchor /\ mf'.focus = mf.focus
               /\ mf'.stack = mf.stack /\ mf'.index = mf.index
               /\ mf'.snaps = 0
               /\ mf'.renders = 0 /\ mf'.field = mf.field
               /\ doc' = doc]_vars

\* An unknown command was performed on a field that has content and
\* snapshots.
C1_Witness ==
    /\ call.op = "perform" /\ call.ret = "false"
    /\ mf.children # <<>> /\ mf.stack # <<>>

\* C2: after n characters typed one at a time in math mode, none completing
\* a shortcut, n undos and then n redos give the tree that followed the n-th
\* insertion, flags aside.
C2_UndoRedoInverse ==
    (hist.n > 0 /\ hist.undone = hist.n /\ hist.redone = hist.n)
        => Tree(mf) = hist.target

\* C3: a typed character that completes an inline shortcut in math mode
\* pushes exactly one snapshot in that event, the tree with the character
\* inserted and the substitution not yet made; the undo that comes next
\* puts back the atoms of that snapshot, character for character, among
\* them the literal characters of the shortcut in a row.
C3_ShortcutSnapshot ==
    [][/\ \A text \in TypedTexts :
            (TypedText(text) /\ Len(text) = 1 /\ mf'.matched)
                => /\ mf'.snaps = 1
                   /\ mf'.index = mf.index + 1
                   /\ mf'.stack[mf'.index] =
                        Tree(insert(Begin(World), text, DefaultOptions))
                   /\ Tree(mf') # mf'.stack[mf'.index]
       /\ (Undo /\ hist.shortcut = "typed")
                => /\ Chars(Tree(mf')) = Chars(mf.stack[mf.index])
                   /\ \E s \in ShortcutsOf(mf.config) :
                        HasRun(Chars(Tree(mf')), s.key)]_vars

\* The undo right after p and i were typed has put back the two letters.
C3_Witness ==
    /\ hist.shortcut = "undone"
    /\ call.op = "undo"
    /\ HasRun(Chars(Tree(mf)), <<"p", "i">>)

\* The commands that change the content of the tree.
ContentCommands ==
    {"delete", "deletePreviousChar", "deleteNextChar", "deleteToMathFieldEnd",
     "transpose", "complete", "insert", "enterCommandMode"}

\* C4: every command performed that changes the content of the tree has
\* pushed, in that call of perform, a snapshot of the tree as it was.
C4_PerformSnapshotsBeforeChange ==
    [][\A command \in Commands :
        (/\ Perform(command)
         /\ command.name \in ContentCommands
         /\ Tree(mf') # Tree(mf))
            => /\ mf'.snaps >= 1
               /\ \E k \in 1..Len(mf'.stack) : mf'.stack[k] = Tree(mf)]_vars

\* The operations C5 is about.
MutatingOperations ==
    {"perform", "typedText", "keystroke", "_onKeystroke", "latex", "insert",
     "select", "clearSelection", "undo", "redo", "pointerMove"}

\* C5: when an operation that changed the tree or the selection returns,
\* the last render shows the tree and the selection it leaves.
C5_RenderedOnReturn ==
    [][(/\ call'.op \in MutatingOperations
        /\ \/ Tree(mf') # Tree(mf)
           \/ mf'.anchor # mf.anchor
           \/ mf'.focus # mf.focus)
            => InSync(mf')]_vars

\* C6: latex(text) with a text that is not undefined, the empty string
\* included, makes the parse of text the content and returns its
\* serialization; with undefined it changes nothing and returns the
\* serialization of the content.
C6_LatexSetsContent ==
    [][\A text \in LatexTexts :
        Latex(text)
            => IF text.type # "undefined"
                 THEN /\ Tree(mf') = ParseLatex(text.text)
                      /\ call'.out = ListToLatex(ParseLatex(text.text))
                 ELSE /\ mf'.children = mf.children
                      /\ call'.out = ListToLatex(mf.children)]_vars

\* C8: keystroke(keys) never raises; it leaves the tree, the selection and
\* the undo stack as the keystroke handler given that key does (for keys that
\* resolve to nothing, unchanged).
C8_KeystrokeNeverRaises ==
    [][\A keys \in Keys :
        Keystroke(keys)
            => /\ ~call'.raised
               /\ LET r == _onKeystroke(Begin(World), keys, TRUE).m
                  IN  /\ mf'.children = r.children
                      /\ mf'.anchor = r.anchor /\ mf'.focus = r.focus
                      /\ mf'.stack = r.stack /\ mf'.index = r.index
               /\ (matchKeystroke(parseMode(World), keys) = <<>>
                    => /\ mf'.children = mf.children
                       /\ mf'.anchor = mf.anchor /\ mf'.focus = mf.focus
                       /\ mf'.stack = mf.stack)]_vars

\* C7: MathField(element) called without new returns an instance bound to
\* the element by new MathField(element, config), and null when what it is
\* given is no DOM element.
C7_LookupReturnsInstance ==
    call.op = "MathField"
        => IF reg.arg.kind = "element"
             THEN BoundTo(reg, reg.arg.el) # {}
                    => /\ reg.found.kind = "instance"
                       /\ reg.found.id \in BoundTo(reg, reg.arg.el)
             ELSE reg.found.kind = "null"

\* What C9 says of the selection that insert leaves, the atoms inserted
\* standing after position lo.
SelectionAfterInsert(m, sm, lo, atoms) ==
    CASE sm = "after" -> m.anchor = lo + Len(atoms) /\ m.focus = lo + Len(atoms)
      [] sm = "before" -> m.anchor = lo /\ m.focus = lo
      [] sm = "item" -> Lo(m) = lo /\ Hi(m) = lo + Len(atoms)
      [] sm = "placeholder" ->
            /\ FirstPlaceholder(atoms) # 0
            /\ Lo(m) = lo + FirstPlaceholder(atoms) - 1
            /\ Hi(m) = lo + FirstPlaceholder(atoms)

\* The tree with the selection replaced by atoms.
SelectionReplaced(m, atoms) ==
    SubSeq(Tree(m), 1, Lo(m)) \o atoms \o SubSeq(Tree(m), Hi(m) + 1, Len(m.children))

C11_SnapshotDropsRedoHistory ==
    [][/\ (Redo /\ hist.redo = "cut")
            => /\ Tree(mf') = Tree(mf)
               /\ mf'.index = mf.index /\ mf'.stack = mf.stack
       /\ (Redo /\ call.op = "typedText"
                /\ (hist.n > 0 \/ hist.shortcut = "typed"))
            => Tree(mf') = Tree(mf)]_vars

\* A redo came right after a snapshot taken with history beyond the cursor,
\* on a field that has content.
C11_Witness ==
    /\ hist.redo = "redone" /\ call.op = "redo"
    /\ mf.children # <<>>

Owned(w) ==
    [tree |-> Strip(w.children), anchor |-> w.anchor, focus |-> w.focus,
     stack |-> w.stack, index |-> w.index, config |-> w.config,
     suggestionIndex |-> w.suggestionIndex]

\* C13: the instances built have ids that differ from one another, and an
\* operation on one instance, or the building of a new one, leaves the
\* tree, the selection, the undo stack, the configuration and the
\* suggestion index of every other instance as they were.
C13_InstancesIndependent ==
    [][/\ \A i, j \in DOMAIN reg'.instances :
            i # j => reg'.instances[i].id # reg'.instances[j].id
       /\ \A j \in DOMAIN reg.instances :
            (reg'.arg.kind # "instance" \/ reg'.arg.el # j)
                => /\ j \in DOMAIN reg'.instances
                   /\ reg'.instances[j].id = reg.instances[j].id
                   /\ Owned(reg'.instances[j].w) = Owned(reg.instances[j].w)]_vars

\* Two instances, the one that acted last having the focus, the other
\* having content, and their undo stacks differing.
C13_Witness ==
    /\ Len(reg.instances) = 2
    /\ reg.arg.kind = "instance"
    /\ \E i, j \in DOMAIN reg.instances :
            /\ i # j /\ reg.arg.el = i
            /\ reg.instances[i].w.active /\ ~reg.instances[j].w.active
            /\ reg.instances[j].w.children # <<>>
            /\ reg.instances[i].w.stack # reg.instances[j].w.stack

\* C14: the deferred deletion of a cut event removes the atoms that were
\* selected when the event was handled, and no other: the tree before it
\* runs is the tree after it with those atoms put back in one place.
C14_CutRemovesWhatWasSelected ==
    [][(Timer /\ Head(doc.timers) = "cut")
        => \E k \in 0..Len(mf'.children) :
              Content(Tree(mf)) =
                SubSeq(Content(Tree(mf')), 1, k) \o hist.cut
                    \o SubSeq(Content(Tree(mf')), k + 1, Len(mf'.children))]_vars

\* C15: a pointer move leaves the tree as it is and the selection on
\* positions that exist; when the anchor recorded at pointer-down resolves
\* no more, the selection too stays as it is.
C15_StaleAnchorIsNoOp ==
    [][\A point \in -1..MaxLen :
        PointerMove(point)
            => /\ Tree(mf') = Tree(mf)
               /\ mf'.stack = mf.stack /\ mf'.index = mf.index
               /\ Resolves(mf', mf'.anchor) /\ Resolves(mf', mf'.focus)
               /\ (\A k \in DOMAIN doc.listeners : ~Resolves(World, doc.listeners[k]))
                    => mf'.anchor = mf.anchor /\ mf'.focus = mf.focus]_vars

\* A pointer move on a position of the field was handled while the anchor
\* recorded at pointer-down lies beyond the end of the tree.
C15_Witness ==
    /\ call.op = "pointerMove"
    /\ doc.timers # <<>> /\ doc.timers[Len(doc.timers)] = "render"
    /\ \E k \in DOMAIN doc.listeners : doc.listeners[k] > Len(mf.children)

\* The shortcuts of a table whose key ends the text s.
Ending(table, s) == {e \in table : EndsWith(s, e.key)}

\* The characters of the atom the insertion point stands after.
Before(m) == IF m.anchor = 0 THEN <<>> ELSE m.children[m.anchor].value

\* C16: a character typed in math mode, with the built-in shortcuts not
\* overridden, is replaced by the configured substitute when the key it
\* completes is in the configuration and in the built-in table, and by the
\* built-in substitute when the key is in the built-in table alone; with
\* the built-in shortcuts overridden, a key that is in the built-in table
\* alone brings no substitution: the character typed stays.
C16_ShortcutsHonourConfig ==
    [][\A text \in TypedTexts :
        (TypedText(text) /\ PlainTyping(text))
            => LET s == extractGroupStringBeforeInsertionPoint(World) \o text
                   user == Ending(mf.config.inlineShortcuts, s)
                   builtin == Ending(INLINE_SHORTCUTS, s)
                   override == mf.config.overrideDefaultInlineShortcuts
               IN  /\ \A u \in user :
                        (~override /\ \E b \in builtin : b.key = u.key)
                            => /\ mf'.matched
                               /\ Before(mf') = Last(ParseLatex(u.substitute)).value
                   /\ \A b \in builtin :
                        (~override /\ user = {})
                            => /\ mf'.matched
                               /\ Before(mf') = Last(ParseLatex(b.substitute)).value
                   /\ (override /\ user = {} /\ builtin # {})
                        => /\ ~mf'.matched
                           /\ Before(mf') = text]_vars

\* A key of both tables was completed and the configured substitute stands
\* in the tree; the built-in table was not overridden.
C16_Witness ==
    /\ call.op = "typedText" /\ mf.matched
    /\ ~mf.config.overrideDefaultInlineShortcuts
    /\ \E u \in mf.config.inlineShortcuts :
            /\ \E b \in INLINE_SHORTCUTS : b.key = u.key
            /\ Before(mf) = Last(ParseLatex(u.substitute)).value

\* Whether suggest offered the command of that label.
Offered(label) == \E k \in DOMAIN rt.offered : rt.offered[k].label = label

\* C17: suggest offers Fraktur, Calligraphic, Blackboard and Script exactly
\* when the selection is a single atom that is an ordinary uppercase letter;
\* with no selection, or one of two or more atoms, they are not offered.
C17_UppercaseCommandsOffered ==
    rt.phase = "offered"
        => \A label \in {"Fraktur", "Calligraphic", "Blackboard", "Script"} :
                Offered(label) <=>
                    /\ ~rt.ctx.selection.isNull
                    /\ Len(rt.ctx.selection.atoms) = 1
                    /\ rt.ctx.selection.atoms[1].type = "mord"
                    /\ Len(rt.ctx.selection.atoms[1].value) = 1
                    /\ rt.ctx.selection.atoms[1].value[1] \in UpperCase

\* Whether the keystroke table gives, for the key in the field's mode, a
\* value that names no operation of the math list or of the math field.
ResolvesToNoOperation(key) ==
    LET shortcut == matchKeystroke(parseMode(World), key)
    IN  /\ shortcut # <<>>
        /\ (shortcut[1].name \o "_") \notin MathlistSelectors \cup MathFieldSelectors

\* C18: handling a keystroke that the table resolves to a value naming no
\* operation leaves the content of the tree as it was.
C18_UnknownShortcutLeavesTree ==
    [][\A key \in Keys :
        (KeystrokeEvent(key) /\ ResolvesToNoOperation(key))
            => Content(Tree(mf')) = Content(Tree(mf))]_vars

\* The atoms of the tree, the root among them (position 0), that carry the
\* caret.
Carets(m) ==
    {k \in 1..Len(m.children) : m.children[k].hasCaret}
        \cup (IF m.rootCaret THEN {0} ELSE {})

\* C19: when a deferred render runs, afterwards every atom is flagged
\* selected exactly when the selection contains it, at most one atom
\* carries the caret, an atom carries it exactly when the field has the
\* focus and the selection is collapsed, and then it is the anchor; the
\* tree apart from these flags, the selection and the undo stack are as
\* they were.
C19_RenderSetsFlagsOnly ==
    [][(Timer /\ Head(doc.timers) = "render")
        => /\ Len(mf'.children) = Len(mf.children)
           /\ \A k \in 1..Len(mf.children) :
                    mf'.children[k].isSelected = contains(World, k)
           /\ Cardinality(Carets(mf')) <= 1
           /\ Carets(mf') # {} <=> (hasFocus(World) /\ Collapsed(World))
           /\ Carets(mf') \subseteq {mf.anchor}
           /\ Strip(mf'.children) = Strip(mf.children)
           /\ mf'.anchor = mf.anchor /\ mf'.focus = mf.focus
           /\ mf'.stack = mf.stack /\ mf'.index = mf.index]_vars

\* A deferred render has run on a focused field with two atoms selected by
\* a drag: both are flagged and no atom carries the caret.
C19_Witness ==
    /\ call.op = "timer" /\ mf.renders = 1
    /\ hasFocus(World)
    /\ Len(mf.children) >= 2 /\ Hi(mf) - Lo(mf) = 2
    /\ \A k \in 1..Len(mf.children) : mf.children[k].isSelected = contains(mf, k)
    /\ Carets(mf) = {}

\* C20: new MathField(element) with the configuration left out returns a
\* field: nothing is raised, and the new instance has the default
\* configuration and no more undo history than its initial content.
C20_OmittedConfigConstructs ==
    (call.op = "new" /\ reg.arg.kind = "omitted")
        => /\ ~call.raised
           /\ \E i \in DOMAIN reg.instances :
                /\ reg.instances[i].id = reg.mathfieldID - 1
                /\ ~reg.instances[i].w.config.spacesBehavesLikeTab
                /\ Len(reg.instances[i].w.stack) <= 1

\* The field after the characters of the text are inserted one by one.
RECURSIVE Inserted(_, _)
Inserted(m, text) ==
    IF text = <<>> THEN m
    ELSE Inserted(insert(m, <<Head(text)>>, DefaultOptions), Tail(text))

\* C21: a typed-text event in math mode none of whose characters completes
\* an inline shortcut pushes one snapshot for each character, and the
\* snapshot of a character is the tree with the characters before it
\* inserted and that character not yet.
C21_SnapshotBeforeEachCharacter ==
    [][\A text \in TypedTexts :
        (/\ TypedText(text)
         /\ parseMode(World) = "math" /\ ~mf.pasteInProgress
         /\ ~mf'.matched)
            => /\ mf'.snaps = Len(text)
               /\ mf'.index = mf.index + Len(text)
               /\ \A j \in 1..Len(text) :
                    mf'.stack[mf.index + j] =
                        Tree(Inserted(Begin(World), SubSeq(text, 1, j - 1)))
               /\ Tree(mf') = Tree(Inserted(Begin(World), text))]_vars

\* Two characters were typed in one event and no shortcut was completed:
\* two snapshots were pushed, the later one holding the first character.
C21_Witness ==
    /\ call.op = "typedText" /\ mf.snaps = 2 /\ ~mf.matched
    /\ mf.index >= 2
    /\ Len(mf.stack[mf.index]) = Len(mf.stack[mf.index - 1]) + 1
    /\ Len(mf.children) = Len(mf.stack[mf.index]) + 1

\* The tree of m, where the n atoms before the insertion point are replaced
\* by the parse of the substitute.
Substituted(m, n, substitute) ==
    Content(Strip(SubSeq(m.children, 1, m.anchor - n)
                    \o ParseLatex(substitute)
                    \o SubSeq(m.children, m.anchor + 1, Len(m.children))))

\* C22: when the character typed at the insertion point completes an inline
\* shortcut, the atoms that spell its key, the typed character among them,
\* are replaced by the substitute, and the atoms before them stay.
C22_SubstitutionRemovesKeyOnly ==
    [][\A text \in TypedTexts :
        (/\ TypedText(text) /\ PlainTyping(text)
         /\ Collapsed(World) /\ mf'.matched)
            => LET shortcut == matchEndOf(
                        extractGroupStringBeforeInsertionPoint(World) \o text,
                        mf.config)[1]
               IN  Content(Tree(mf')) =
                        Substituted(insert(Begin(World), text, DefaultOptions),
                                    Len(shortcut.match), shortcut.substitute)]_vars

\* The content of the field were undo called now.
AfterUndo == Content(Tree(undo(Begin(World))))

\* C23: latex(text) with a non-empty text pushes one snapshot, the tree as
\* it was before the call, and an undo called next gives the field the
\* content it had before the call; the field that the constructor built
\* from the text of its element is empty after one undo.
C23_UndoAfterLatex ==
    /\ (call.op = "new" /\ mf.children # <<>>) => AfterUndo = <<>>
    /\ [][\A text \in LatexTexts :
            (Latex(text) /\ Truthy(text))
                => /\ mf'.snaps = 1
                   /\ mf'.index = mf.index + 1
                   /\ mf'.stack[mf'.index] = Tree(mf)
                   /\ AfterUndo' = Content(Tree(mf))]_vars

\* latex('x') has replaced a content that was not x, and an undo would
\* put that content back.
C23_Witness ==
    /\ call.op = "latex" /\ mf.snaps = 1
    /\ Chars(Tree(mf)) = <<"x">>
    /\ mf.index >= 1
    /\ Content(mf.stack[mf.index]) # Content(Tree(mf))
    /\ AfterUndo = Content(mf.stack[mf.index])

\* C24: a typed-text event that does not come right after a paste event,
\* and so does not carry the payload of a paste, begins with
\* pasteInProgress false: its text goes through the loop over its
\* characters and is not inserted as one LaTeX fragment.
C24_PasteFlagClearWhenTyping ==
    [][\A text \in TypedTexts :
        (TypedText(text) /\ call.op # "paste") => ~mf.pasteInProgress]_vars

\* The command string around the insertion point as it was typed, the
\* suggested characters left out, and whether one of its atoms carries the
\* error indicator.
TypedCommand(m) ==
    ConcatValues(SelectSeq(SubSeq(m.children, CommandStart(m), CommandEnd(m)),
                           LAMBDA a : ~a.suggestion))
CarriesError(m) == \E k \in 1..Len(m.children) : InCommand(m, k) /\ m.children[k].error

\* C25: after a typed-text event handled in command mode that leaves the
\* field in command mode, the command string around the insertion point
\* carries the error indicator exactly when nothing is suggested for the
\* string as typed and the string is a backslash followed by letters,
\* backslashes or asterisks.
C25_ErrorIndicatorAfterTyping ==
    [][\A text \in CommandTexts :
        (/\ TypedText(text)
         /\ parseMode(World) = "command"
         /\ parseMode(mf' @@ doc') = "command")
            => (CarriesError(mf')
                    <=> /\ suggest(TypedCommand(mf')) = <<>>
                        /\ LooksLikeCommand(TypedCommand(mf')))]_vars

\* The suggestions for the command string as typed, and the command string
\* the field shows, the suggested characters included.
SuggestionsFor(m) == suggest(TypedCommand(m))
Shown(m) == extractCommandStringAroundInsertionPoint(m)
ShowsSuggestion(m, suggestions) ==
    /\ m.suggestionIndex >= 0
    /\ Shown(m) = suggestions[(m.suggestionIndex % Len(suggestions)) + 1].match
    /\ m.popover

\* The keystroke that asks for the next or the previous suggestion, in
\* command mode with something to suggest.
Browses(key) ==
    /\ KeystrokeEvent(key)
    /\ parseMode(World) = "command"
    /\ Len(SuggestionsFor(World)) >= 1

\* C26 as stated: the index stays within 0..n-1 when the next or the
\* previous of n suggestions is asked for.
C26_IndexWithinRange ==
    [][\A key \in {"ArrowDown", "ArrowUp"} :
        Browses(key)
            => mf'.suggestionIndex \in 0..(Len(SuggestionsFor(World)) - 1)]_vars

\* C26: with n >= 1 suggestions, nextSuggestion adds one to the index and
\* previousSuggestion takes one off, setting it to n - 1 when that would be
\* negative; the index they leave is not negative, it is not reduced
\* modulo n, and the suggestion shown is the one at the index modulo n, so
\* that next after the last shows the first and each of the two undoes
\* the other; a character typed in command mode and entering command mode
\* set the index to 0.
C26_SuggestionIndexCycles ==
    [][/\ Browses("ArrowDown")
            => /\ mf'.suggestionIndex = mf.suggestionIndex + 1
               /\ ShowsSuggestion(mf', SuggestionsFor(World))
       /\ Browses("ArrowUp")
            => /\ mf'.suggestionIndex =
                    IF mf.suggestionIndex - 1 < 0
                        THEN Len(SuggestionsFor(World)) - 1
                        ELSE mf.suggestionIndex - 1
               /\ ShowsSuggestion(mf', SuggestionsFor(World))
       /\ \A text \in CommandTexts :
            (TypedText(text) /\ parseMode(World) = "command"
                /\ ~mf.pasteInProgress)
                => mf'.suggestionIndex = 0
       /\ Perform(Command("enterCommandMode")) => mf'.suggestionIndex = 0]_vars

\* The next suggestion was asked for after the last of two: the index is 2
\* and the first suggestion is shown again.
C26_Witness ==
    /\ call.op = "_onKeystroke"
    /\ parseMode(World) = "command"
    /\ Len(SuggestionsFor(World)) = 2
    /\ mf.suggestionIndex = 2
    /\ Shown(mf) = SuggestionsFor(World)[1].match

\* What complete is to put in the place of the command string: the parse of
\* the symbol that matches, or else of the command text.
Completion(command) ==
    IF matchSymbol(command) # <<>>
        THEN ParseLatex(matchSymbol(command)[1].latexName)
        ELSE ParseLatex(command)

\* The two outcomes of complete on m: the command string replaced, or left
\* in place and marked.
Replaced(m, after) ==
    Content(Tree(after)) =
        Content(Strip(SubSeq(m.children, 1, CommandStart(m) - 1)
                        \o Completion(Shown(m))
                        \o SubSeq(m.children, CommandEnd(m) + 1, Len(m.children))))
LeftMarked(m, after) ==
    /\ Content(Tree(after)) = Content(Tree(m))
    /\ \A k \in 1..Len(after.children) : InCommand(m, k) => after.children[k].error

\* C27: complete, performed as a command, first pushes a snapshot of the
\* tree and leaves the popover hidden; with a command string around the
\* insertion point it either replaces the string by the parse of the
\* matching symbol, or of the command text when no symbol matches, or
\* leaves it in place with the error indicator, and never both; with no
\* command string the content of the tree stays.
C27_CompleteOutcomes ==
    [][Perform(Command("complete"))
        => /\ mf'.snaps = 1
           /\ mf'.stack[mf'.index] = Tree(mf)
           /\ ~mf'.popover
           /\ IF Shown(World) = <<>>
                THEN Content(Tree(mf')) = Content(Tree(mf))
                ELSE Replaced(World, mf') # LeftMarked(World, mf')]_vars

\* complete was performed on a command that matches no symbol: the atoms
\* of the command are gone from the tree, and are in the snapshot.
C27_Witness ==
    /\ call.op = "perform" /\ mf.snaps = 1 /\ ~mf.popover
    /\ \E k \in 1..Len(mf.stack[mf.index]) :
            /\ mf.stack[mf.index][k].type = "command"
            /\ Len(mf.stack[mf.index]) >= k + 1
            /\ mf.stack[mf.index][k + 1].value = <<"i">>
            /\ Len(mf.stack[mf.index]) = k + 1
    /\ \A k \in 1..Len(mf.children) : mf.children[k].type # "command"
    /\ mf.children # <<>>

\* The textarea holds the LaTeX of the selected atoms, nothing when the
\* selection is collapsed.
TextareaHoldsSelection(m) ==
    m.textarea = IF Collapsed(m) THEN <<>> ELSE ListToLatex(extractContents(m))

\* No atom of the command string before the insertion point is a suggestion.
Committed(m) ==
    \A k \in 1..Len(m.children) :
        (InCommand(m, k) /\ k <= m.anchor) => ~m.children[k].suggestion

\* C28: what the client's handler finds in the textarea is what the
\* textarea holds when the operation ends; after an operation in which the
\* selection changed and the handler ran, the textarea holds the LaTeX of
\* the selected atoms, or nothing when the selection is collapsed, and the
\* atoms of the command string before the insertion point are committed.
C28_TextareaFollowsSelection ==
    [][/\ mf'.seen = mf'.textarea
       /\ mf'.notified => TextareaHoldsSelection(mf') /\ Committed(mf')]_vars

\* A selection of one atom or more was made, the handler ran, and the
\* textarea holds its LaTeX, which the client's handler has found there.
C28_Witness ==
    /\ mf.notified /\ ~Collapsed(mf)
    /\ call.op \in {"select", "pointerMove"}
    /\ mf.textarea # <<>>
    /\ TextareaHoldsSelection(mf)
    /\ mf.seen = mf.textarea

\* The focus and the blur events, of the window and of the textarea.
FocusStep == WindowFocus \/ FocusIn
BlurStep == WindowBlur \/ FocusOut

\* C29: the field starts blurred; an operation invokes the client's onFocus
\* handler only on a blurred field, which it leaves focused, and the
\* onBlur handler only on a focused field, which it leaves blurred, so the
\* two alternate, onFocus first; a focus event on a focused field and a
\* blur event on a blurred field invoke no handler and render nothing.
C29_FocusBlurAlternate ==
    /\ mf.blurred /\ mf.handlers = <<>>
    /\ [][/\ mf'.handlers \in {<<>>, <<"onFocus">>, <<"onBlur">>}
          /\ (mf'.handlers = <<>>) => (mf'.blurred = mf.blurred)
          /\ (mf'.handlers = <<"onFocus">>) => (mf.blurred /\ ~mf'.blurred)
          /\ (mf'.handlers = <<"onBlur">>) => (~mf.blurred /\ mf'.blurred)
          /\ (FocusStep /\ mf.blurred) => (mf'.handlers = <<"onFocus">>)
          /\ (BlurStep /\ ~mf.blurred) => (mf'.handlers = <<"onBlur">>)
          /\ ((FocusStep /\ ~mf.blurred) \/ (BlurStep /\ mf.blurred))
               => (mf'.handlers = <<>> /\ mf'.renders = 0)]_vars

\* The textarea took the focus in a window whose focus event had already
\* put the field in the focused state: no handler ran and nothing was
\* rendered.
C29_Witness ==
    /\ call.op = "focusIn"
    /\ ~mf.blurred /\ mf.handlers = <<>> /\ mf.renders = 0


\* C30: on a page of several fields at most one is in the focused state,
\* and a field in the focused state has its text area holding the keyboard
\* focus.
C30_OneFieldFocused ==
    \A i \in DOMAIN reg.instances :
        ~reg.instances[i].w.blurred
            => /\ hasFocus(reg.instances[i].w)
               /\ \A j \in DOMAIN reg.instances :
                    j # i => reg.instances[j].w.blurred

\* C31: at most one pointer-tracking session is active at a time, a
\* pointer-down leaving registered no listeners but its own, and the
\* delivery of one pointer-move sets the selection at most once.
C31_OneTrackingSession ==
    [][/\ Len(doc'.listeners) <= 1
       /\ call'.op = "pointerMove"
            => Len(doc'.timers) <= Len(doc.timers) + 1]_vars

=============================================================================
